---------------------------- MODULE Spec2Model ----------------------------
(***************************************************************************)
(* Model of the aggregation orchestrator of the Universal Streaming        *)
(* Scraper API (src/main.py): adapter selection, concurrent search         *)
(* fan-out, collection, ranking, truncation, and the single-adapter        *)
(* lookups (details, sources, episode, download, trending).                *)
(*                                                                         *)
(* One HTTP request is processed at a time.  The adapters' sites are the   *)
(* environment: every adapter invocation completes, in any order, with a   *)
(* value its code can return or with an exception (no adapter catches      *)
(* exceptions itself).                                                     *)
(***************************************************************************)
EXTENDS Integers, Sequences, FiniteSets, TLC

(***************************************************************************)
(* Bounds of the model.                                                    *)
(***************************************************************************)
\* largest `limit` a request carries (the endpoints accept 1..50 and 1..20)
MaxLimit == 2
\* largest number of video sources / links an adapter lookup returns
MaxSources == 2

(***************************************************************************)
(* Characters and strings.  A string is a sequence of character codes;     *)
(* the codes keep the ASCII order (upper case before lower case).          *)
(*   1 = "A", 2 = "B", 3 = "a", 4 = "b"                                    *)
(***************************************************************************)
Lower(c) == IF c <= 2 THEN c + 2 ELSE c

\* str.lower()
LowerStr(s) == [i \in 1..Len(s) |-> Lower(s[i])]

\* `sub in s` on Python strings
Contains(s, sub) ==
    \E i \in 0..(Len(s) - Len(sub)) :
        \A j \in 1..Len(sub) : s[i + j] = sub[j]

\* s < t on Python strings: lexicographic on code points
RECURSIVE StrLess(_, _)
StrLess(s, t) ==
    IF t = <<>> THEN FALSE
    ELSE IF s = <<>> THEN TRUE
    ELSE IF Head(s) # Head(t) THEN Head(s) < Head(t)
    ELSE StrLess(Tail(s), Tail(t))

Min(a, b) == IF a <= b THEN a ELSE b

(***************************************************************************)
(* Registries.                                                             *)
(***************************************************************************)
\* main.py `scrapers`: the adapter registry, in dict insertion order
scrapers ==
    << "gogoanime", "zoro", "animeheaven", "animesama",
       "sflix", "fmovies", "lookmovie", "vidsrc" >>

ScraperIds == { scrapers[i] : i \in 1..Len(scrapers) }

\* site_name each adapter passes to BaseScraper.__init__
site_name(name) ==
    CASE name = "gogoanime"   -> "Gogoanime"
      [] name = "zoro"        -> "AniWatch"
      [] name = "animeheaven" -> "AnimeHeaven"
      [] name = "animesama"   -> "AnimeSama"
      [] name = "sflix"       -> "SFlix"
      [] name = "fmovies"     -> "FMovies"
      [] name = "lookmovie"   -> "LookMovie"
      [] name = "vidsrc"      -> "VidSrc"

\* config.py DEFAULT_SITES: content kind -> ordered adapter ids
DEFAULT_SITES ==
    [ anime  |-> << "gogoanime", "animeheaven", "animesama" >>,
      movie  |-> << "sflix", "fmovies", "lookmovie" >>,
      series |-> << "sflix", "fmovies", "lookmovie" >> ]

\* keys of config.py SITES_CONFIG
SiteConfigIds ==
    { "gogoanime", "zoro", "animeheaven", "voiranime", "animesama",
      "fmovies", "sflix", "voirfilm", "streamingcommunity", "pelispedia",
      "kinox", "lookmovie", "vidsrc", "tmdb" }

(***************************************************************************)
(* Request inputs.                                                         *)
(***************************************************************************)
\* absent optional query parameter (Python None)
NoValue == "<none>"

\* source ids a caller may send: registered ones, one that is configured
\* as a site but has no adapter, and one that is unknown everywhere
SourceInputs == ScraperIds \cup { "tmdb", "nosuch" }

\* values of the `type` query parameter
TypeInputs == { "all", "anime", "movie", "series", "documentary" }

\* search terms: "a", "B"
QueryInputs == { <<3>>, <<2>> }

LimitInputs == 1..MaxLimit

(***************************************************************************)
(* The sites.  Catalog[name] is the list of titles the site of adapter     *)
(* `name` holds for a search; a search that does not raise returns the     *)
(* items of a prefix of it, at most `limit` long.  Titles:                 *)
(*   "Ab" <<1,4>>, "b" <<4>>, "B" <<2>>, "a" <<3>>, "aB" <<3,2>>, "" <<>>  *)
(***************************************************************************)
Catalog ==
    [ gogoanime   |-> << <<4>>, <<1, 4>> >>,
      zoro        |-> << <<2>> >>,
      animeheaven |-> << <<3>> >>,
      animesama   |-> << <<1, 4>> >>,
      sflix       |-> << <<2>> >>,
      fmovies     |-> << <<>> >>,
      lookmovie   |-> << <<3, 2>> >>,
      vidsrc      |-> << <<4>> >> ]

\* the result dict an adapter's search builds for the k-th entry of its site
SearchItem(name, k) ==
    [ id |-> k, title |-> Catalog[name][k], source |-> site_name(name) ]

(***************************************************************************)
(* Values that fill a result slot of an adapter invocation.                *)
(***************************************************************************)
\* the invocation has not completed
Pending == [kind |-> "pending"]
\* the invocation raised an exception
Raised == [kind |-> "raised"]
\* the invocation returned None
ReturnedNone == [kind |-> "none"]
\* the invocation returned a Python list
ListOf(items) == [kind |-> "list", items |-> items]
\* the invocation returned a ScraperResult
ObjectOf(value) == [kind |-> "object", value |-> value]

\* the lists scraper.search(q, limit) can return: `for item in items[:limit]`
SearchReturns(name, limit) ==
    { [k \in 1..n |-> SearchItem(name, k)] :
        n \in 0..Min(limit, Len(Catalog[name])) }

\* every way scraper.search(q, limit) can complete
SearchOutcomes(name, limit) ==
    { Raised } \cup { ListOf(r) : r \in SearchReturns(name, limit) }

(***************************************************************************)
(* Responses.                                                              *)
(***************************************************************************)
\* main.py ApiResponse, sent with HTTP status 200
ApiResponse(success, message, data, sources_used) ==
    [ status |-> 200, success |-> success, message |-> message,
      data |-> data, sources_used |-> sources_used ]

\* fastapi HTTPException(status_code, detail)
HTTPException(status_code, detail) ==
    [ status |-> status_code, detail |-> detail ]

\* an f-string: its literal text and the values formatted into it
FString(text, args) == [text |-> text, args |-> args]

\* len(message) > 0 for a rendered message
NonEmptyMessage(m) == m.text # "" \/ m.args # <<>>

\* JSON null as response data
NullData == [kind |-> "none"]

(***************************************************************************)
(* search_content: selection, wrapper, collection, truncation.             *)
(***************************************************************************)
\* the default adapters extended without the `else`
SelectScrapersNoElse(source, type) ==
    (IF source # NoValue /\ source \in ScraperIds
     THEN << source >> ELSE << >>)
    \o
    (IF type = "anime" \/ type = "all"
     THEN << "gogoanime", "animeheaven", "animesama" >>
     ELSE << >>)
    \o
    (IF type \in { "movie", "series", "all" }
     THEN << "sflix", "lookmovie", "vidsrc" >>
     ELSE << >>)

\* main.py search_content, `scrapers_to_use`
SelectScrapers(source, type) ==
    IF source # NoValue /\ source \in ScraperIds
    THEN << source >>
    ELSE (IF type = "anime" \/ type = "all"
          THEN << "gogoanime", "animeheaven", "animesama" >>
          ELSE << >>)
         \o
         (IF type \in { "movie", "series", "all" }
          THEN << "sflix", "lookmovie", "vidsrc" >>
          ELSE << >>)

\* main.py search_with_scraper: the value the task leaves in its slot
search_with_scraper(outcome) ==
    IF outcome.kind = "raised" THEN ListOf(<< >>) ELSE outcome

\* a variant that keeps the source the adapter wrote into each item
TagSourceKept(items, name) == items

\* `item['source'] = name` for every item of one result list
TagSource(items, name) ==
    [ i \in 1..Len(items) |-> [items[i] EXCEPT !.source = name] ]

\* main.py search_content, `results` after the zip loop over the first n slots
RECURSIVE ExtendResults(_, _, _)
ExtendResults(names, slots, n) ==
    IF n = 0 THEN << >>
    ELSE ExtendResults(names, slots, n - 1)
         \o (IF slots[n].kind = "list"
             THEN TagSource(slots[n].items, names[n])
             ELSE << >>)

\* the append moved out of `if result:`
AppendAlways(used, name, slot) ==
    IF slot.kind = "list" THEN Append(used, name) ELSE used

\* `if result: sources_used.append(name)`
AppendIfResult(used, name, slot) ==
    IF slot.kind = "list" /\ Len(slot.items) > 0
    THEN Append(used, name) ELSE used

\* main.py search_content / multi_search, `sources_used` after the loop
RECURSIVE CollectSourcesUsed(_, _, _)
CollectSourcesUsed(names, slots, n) ==
    IF n = 0 THEN << >>
    ELSE AppendIfResult(CollectSourcesUsed(names, slots, n - 1),
                        names[n], slots[n])

\* results[:n + 1]
TruncateOffByOne(results, n) == SubSeq(results, 1, Min(n + 1, Len(results)))

\* results[:n]
Truncate(results, n) == SubSeq(results, 1, Min(n, Len(results)))

\* `success=len(results) >= 0`
SuccessAlways(data) == Len(data) >= 0

\* `success=len(results) > 0`
Success(data) == Len(data) > 0

(***************************************************************************)
(* multi_search: wrapper and ranking.                                      *)
(***************************************************************************)
\* search_single without its try/except: the exception stays in the task
search_single_uncaught(name, outcome) ==
    IF outcome.kind = "raised" THEN outcome
    ELSE ListOf(TagSource(outcome.items, name))

\* main.py search_single: the (name, results) pair the task leaves in its slot
search_single(name, outcome) ==
    IF outcome.kind = "raised" THEN ListOf(<< >>)
    ELSE ListOf(TagSource(outcome.items, name))

\* the key without .lower() on the title
SortKeyCaseSensitive(x, query_lower) ==
    << IF Contains(x.title, query_lower) THEN 0 ELSE 1, x.title >>

\* the sort key of multi_search: (0 if query_lower in title.lower() else 1, title)
SortKey(x, query_lower) ==
    << IF Contains(LowerStr(x.title), query_lower) THEN 0 ELSE 1, x.title >>

\* k1 < k2 on the key tuples
KeyLess(k1, k2) ==
    \/ k1[1] < k2[1]
    \/ k1[1] = k2[1] /\ StrLess(k1[2], k2[2])

\* put x behind every element of the sorted list whose key is not greater
RECURSIVE InsertStable(_, _, _)
InsertStable(x, sorted, query_lower) ==
    IF sorted = << >> THEN << x >>
    ELSE IF KeyLess(SortKey(x, query_lower), SortKey(Head(sorted), query_lower))
         THEN << x >> \o sorted
         ELSE << Head(sorted) >> \o InsertStable(x, Tail(sorted), query_lower)

\* list.sort(key=...) is stable
RECURSIVE SortByRelevance(_, _, _)
SortByRelevance(all_results, query_lower, n) ==
    IF n = 0 THEN << >>
    ELSE InsertStable(all_results[n],
                      SortByRelevance(all_results, query_lower, n - 1),
                      query_lower)

(***************************************************************************)
(* Single-adapter lookups.                                                 *)
(***************************************************************************)
\* the check made against the site configuration instead of the registry
SourceConfigured(source) == source \in SiteConfigIds

\* `source not in scrapers` is the negation of this
SourceSupported(source) == source \in ScraperIds

\* hasattr(scraper, op): every adapter inherits the three abstract
\* operations and get_download_links from BaseScraper
HasAttr(name, op) ==
    op \in { "search", "get_details", "get_episode_sources",
             "get_download_links" }

\* base_scraper.py VideoSource, reduced to the field that identifies it
VideoSource(k) == [url |-> k]

\* the source lists an adapter can produce
SourceLists == { [k \in 1..n |-> VideoSource(k)] : n \in 0..MaxSources }

\* base_scraper.py ScraperResult, reduced to id, type and sources
ScraperResult(type, sources) == [type |-> type, sources |-> sources]

\* VideoSource.to_dict, on the reduced record
VideoSourceToDict(s) == [url |-> s.url]

\* [s.to_dict() for s in sources]
SourcesToDicts(sources) ==
    [ i \in 1..Len(sources) |-> VideoSourceToDict(sources[i]) ]

\* ScraperResult.to_dict, on the reduced record
ScraperResultToDict(r) ==
    [ type |-> r.type, sources |-> SourcesToDicts(r.sources) ]

\* the kind main.py passes to scraper.get_details: the caller's kind for
\* sflix and fmovies, nothing (the adapter's default) for the others
DetailsKindArg(source, type) ==
    IF source \in { "sflix", "fmovies" } THEN type ELSE NoValue

\* the kind get_details works with: the argument, or its default "movie"
\* (the anime adapters have no kind parameter and produce anime)
DetailsKind(source, kindArg) ==
    IF source \in { "sflix", "fmovies", "lookmovie", "vidsrc" }
    THEN (IF kindArg = NoValue THEN "movie" ELSE kindArg)
    ELSE "anime"

\* every way scraper.get_details can complete
DetailsOutcomes(source, kindArg) ==
    { Raised, ReturnedNone }
    \cup { ObjectOf(ScraperResult(DetailsKind(source, kindArg), srcs)) :
             srcs \in SourceLists }

\* every way scraper.get_episode_sources can complete
EpisodeSourcesOutcomes == { Raised } \cup { ListOf(srcs) : srcs \in SourceLists }

\* BaseScraper.get_download_links, which no adapter overrides
DownloadLinksOutcomes == { ListOf(<< >>) }

\* every way adapter operation `op` can complete
LookupOutcomes(source, op, kindArg) ==
    CASE op = "get_details"         -> DetailsOutcomes(source, kindArg)
      [] op = "get_episode_sources" -> EpisodeSourcesOutcomes
      [] op = "get_download_links"  -> DownloadLinksOutcomes

\* response of get_sources, get_episode and get_download_links for a list
ListResponse(items, found, nothing, source) ==
    ApiResponse(Len(items) > 0,
                IF Len(items) > 0 THEN FString(found, << Len(items) >>)
                                  ELSE FString(nothing, << >>),
                ListOf(items), << source >>)

\* `except Exception as e: raise HTTPException(status_code=500, ...)`
InternalError == HTTPException(500, "Erreur")

(***************************************************************************)
(* State.                                                                  *)
(***************************************************************************)
VARIABLES
    phase,            \* "idle", "fanout", "lookup" or "responded"
    request,          \* the request being served
    scrapers_to_use,  \* adapter ids selected for the fan-out, in order
    search_results,   \* one result slot per selected adapter (asyncio.gather)
    lookup_result,    \* result slot of the awaited adapter lookup
    invoked,          \* history: adapter operations invoked for the request
    returned,         \* history: how each invoked operation completed
    response          \* the response sent, once phase = "responded"

\* the components below the orchestrator, each exercised by a specification
\* of its own; the orchestrator's steps leave them alone
VARIABLES
    fetch_tasks,      \* fetch layer: the logical fetch each task is running
    retry,            \* retry_request: the run of one wrapper call
    adapter_call,     \* site adapter: the last operation run and its result
    serialized,       \* data model: the last object given to to_dict
    pool,             \* AsyncRequestPool: its semaphore and its requests
    overtaken,        \* history: a gathered task completed before an earlier one
    adapters          \* the adapter registry: each adapter's configuration

orchestrator == << phase, request, scrapers_to_use, search_results,
                   lookup_result, invoked, returned, response >>

components == << fetch_tasks, retry, adapter_call, serialized, pool,
                 overtaken, adapters >>

vars == << orchestrator, components >>

\* tasks of the event loop that run adapter operations side by side
Tasks == { "t1", "t2" }

\* a task that runs no fetch
IdleTask == [ stage |-> "idle" ]

\* no wrapper call is running
RetryIdle == [ pc |-> "idle" ]

\* no adapter operation has run
NoCall == [ op |-> "none" ]

\* nothing has been serialized
NothingSerialized == [ class |-> "none" ]

\* no request pool has been constructed
NoPool == [ created |-> FALSE ]

\* base_url each adapter passes to BaseScraper.__init__
base_url(name) ==
    CASE name = "gogoanime"   -> "https://anitaku.to"
      [] name = "zoro"        -> "https://aniwatch.to"
      [] name = "animeheaven" -> "https://animeheaven.me"
      [] name = "animesama"   -> "https://anime-sama.fr"
      [] name = "sflix"       -> "https://sflix.to"
      [] name = "fmovies"     -> "https://fmovies.to"
      [] name = "lookmovie"   -> "https://lookmovie2.to"
      [] name = "vidsrc"      -> "https://vidsrc.to"

\* language each adapter passes to BaseScraper.__init__
language(name) ==
    CASE name = "animesama" -> "fr"
      [] name = "vidsrc"    -> "multi"
      [] OTHER              -> "en"

\* BaseScraper.__init__: the configuration of a new adapter; of the default
\* headers, the two that the fetch layer's own defaults set differently
BaseScraper(url, site, lang) ==
    [ base_url  |-> url,
      site_name |-> site,
      language  |-> lang,
      session   |-> "None",
      headers   |-> [ Accept   |-> "text/html",
                      Encoding |-> "gzip, deflate, br" ] ]

\* main.py `scrapers`: one adapter per id, built when the module is loaded
Registry ==
    [ name \in ScraperIds |->
        BaseScraper(base_url(name), site_name(name), language(name)) ]

ComponentsIdle ==
    /\ fetch_tasks = [ t \in Tasks |-> IdleTask ]
    /\ retry = RetryIdle
    /\ adapter_call = NoCall
    /\ serialized = NothingSerialized
    /\ pool = NoPool
    /\ overtaken = FALSE
    /\ adapters = Registry

NoRequest ==
    [ endpoint |-> "none", q |-> << >>, type |-> NoValue, limit |-> 1,
      source |-> NoValue, episode_id |-> NoValue ]

NoResponse == [ status |-> 0 ]

Init ==
    /\ phase = "idle"
    /\ request = NoRequest
    /\ scrapers_to_use = << >>
    /\ search_results = << >>
    /\ lookup_result = Pending
    /\ invoked = << >>
    /\ returned = << >>
    /\ response = NoResponse
    /\ ComponentsIdle

\* one adapter operation started for the request
Invocation(name, op, kind) == [name |-> name, op |-> op, kind |-> kind]

\* the handler returns or raises: the response goes out
Respond(r) ==
    /\ phase' = "responded"
    /\ response' = r

\* every slot of the fan-out is filled: asyncio.gather returns
AllSettled == \A i \in 1..Len(search_results) : search_results[i].kind # "pending"

(***************************************************************************)
(* /api/search                                                             *)
(***************************************************************************)
\* search_content up to `await asyncio.gather(...)`
SearchContentCall(q, type, limit, source) ==
    /\ phase = "idle"
    /\ UNCHANGED components
    /\ request' = [ endpoint |-> "search", q |-> q, type |-> type,
                    limit |-> limit, source |-> source,
                    episode_id |-> NoValue ]
    /\ scrapers_to_use' = SelectScrapers(source, type)
    /\ search_results' = [ i \in 1..Len(scrapers_to_use') |-> Pending ]
    /\ invoked' = [ i \in 1..Len(scrapers_to_use') |->
                      Invocation(scrapers_to_use'[i], "search", NoValue) ]
    /\ returned' = [ i \in 1..Len(scrapers_to_use') |-> Pending ]
    /\ phase' = "fanout"
    /\ UNCHANGED << lookup_result, response >>

\* one task of the fan-out completes: scraper.search returns or raises inside
\* search_with_scraper (/api/search) or search_single (/api/multi-search)
SearchTaskCompletes(i) ==
    /\ phase = "fanout"
    /\ UNCHANGED components
    /\ i \in 1..Len(search_results)
    /\ search_results[i].kind = "pending"
    /\ \E outcome \in SearchOutcomes(scrapers_to_use[i], request.limit) :
         /\ search_results' =
              [ search_results EXCEPT ![i] =
                  IF request.endpoint = "search"
                  THEN search_with_scraper(outcome)
                  ELSE search_single(scrapers_to_use[i], outcome) ]
         /\ returned' = [ returned EXCEPT ![i] = outcome ]
    /\ UNCHANGED << phase, request, scrapers_to_use, lookup_result, invoked,
                    response >>

\* search_content after the gather: collect, truncate, respond
SearchContentReturn ==
    /\ phase = "fanout"
    /\ UNCHANGED components
    /\ request.endpoint = "search"
    /\ AllSettled
    /\ LET n == Len(scrapers_to_use)
           results == Truncate(ExtendResults(scrapers_to_use, search_results, n),
                               request.limit)
           sources_used == CollectSourcesUsed(scrapers_to_use, search_results, n)
       IN Respond(ApiResponse(
              Success(results),
              IF Len(results) > 0
              THEN FString("resultats trouves", << Len(results) >>)
              ELSE FString("Aucun resultat", << >>),
              ListOf(results),
              sources_used))
    /\ UNCHANGED << request, scrapers_to_use, search_results, lookup_result,
                    invoked, returned >>

(***************************************************************************)
(* /api/multi-search                                                       *)
(***************************************************************************)
\* multi_search up to `await asyncio.gather(*tasks)`: every registered adapter
MultiSearchCall(q, type, limit) ==
    /\ phase = "idle"
    /\ UNCHANGED components
    /\ request' = [ endpoint |-> "multi-search", q |-> q, type |-> type,
                    limit |-> limit, source |-> NoValue,
                    episode_id |-> NoValue ]
    /\ scrapers_to_use' = scrapers
    /\ search_results' = [ i \in 1..Len(scrapers) |-> Pending ]
    /\ invoked' = [ i \in 1..Len(scrapers) |->
                      Invocation(scrapers[i], "search", NoValue) ]
    /\ returned' = [ i \in 1..Len(scrapers) |-> Pending ]
    /\ phase' = "fanout"
    /\ UNCHANGED << lookup_result, response >>

\* `all_results` after the loop over the first n (name, result_list) pairs
RECURSIVE ExtendAll(_, _)
ExtendAll(slots, n) ==
    IF n = 0 THEN << >>
    ELSE ExtendAll(slots, n - 1) \o slots[n].items

\* multi_search after the gather: collect, sort, truncate, respond.  The
\* gather has no return_exceptions: an exception of a task leaves the handler.
MultiSearchReturn ==
    /\ phase = "fanout"
    /\ UNCHANGED components
    /\ request.endpoint = "multi-search"
    /\ AllSettled
    /\ IF \E i \in 1..Len(search_results) : search_results[i].kind = "raised"
       THEN Respond(HTTPException(500, "Internal Server Error"))
       ELSE LET n == Len(scrapers_to_use)
                all_results == ExtendAll(search_results, n)
                sources_used ==
                    CollectSourcesUsed(scrapers_to_use, search_results, n)
                sorted == SortByRelevance(all_results, LowerStr(request.q),
                                          Len(all_results))
            IN Respond(ApiResponse(
                   Success(sorted),
                   FString("resultats de sources",
                           << Len(sorted), Len(sources_used) >>),
                   ListOf(Truncate(sorted, request.limit * 3)),
                   sources_used))
    /\ UNCHANGED << request, scrapers_to_use, search_results, lookup_result,
                    invoked, returned >>

(***************************************************************************)
(* Single-adapter lookups.  Each handler runs up to its one `await` of an  *)
(* adapter operation (Call), the operation completes (LookupCompletes),    *)
(* and the handler finishes (Return).                                      *)
(***************************************************************************)
LookupRequest(endpoint, source, type, episode_id) ==
    [ endpoint |-> endpoint, q |-> << >>, type |-> type, limit |-> 1,
      source |-> source, episode_id |-> episode_id ]

\* `raise HTTPException(status_code=400, ...)` before the try block
RejectSource ==
    /\ Respond(HTTPException(400, "Source non supportee"))
    /\ UNCHANGED << scrapers_to_use, search_results, lookup_result, invoked,
                    returned >>

\* the handler reaches `await scraper.<op>(...)`
AwaitAdapter(source, op, kind) ==
    /\ phase' = "lookup"
    /\ invoked' = << Invocation(source, op, kind) >>
    /\ lookup_result' = Pending
    /\ returned' = << Pending >>
    /\ UNCHANGED << scrapers_to_use, search_results, response >>

\* the handler responds without having called the adapter
RespondDirectly(r) ==
    /\ Respond(r)
    /\ UNCHANGED << scrapers_to_use, search_results, lookup_result, invoked,
                    returned >>

\* the awaited adapter operation returns or raises
LookupCompletes ==
    /\ phase = "lookup"
    /\ UNCHANGED components
    /\ lookup_result.kind = "pending"
    /\ \E outcome \in LookupOutcomes(invoked[1].name, invoked[1].op,
                                     invoked[1].kind) :
         /\ lookup_result' = outcome
         /\ returned' = << outcome >>
    /\ UNCHANGED << phase, request, scrapers_to_use, search_results, invoked,
                    response >>

\* the handler resumes after the await
Resumes(endpoint) ==
    /\ phase = "lookup"
    /\ request.endpoint = endpoint
    /\ lookup_result.kind # "pending"

FinishLookup(r) ==
    /\ Respond(r)
    /\ UNCHANGED << request, scrapers_to_use, search_results, lookup_result,
                    invoked, returned >>

\* get_details up to the await
GetDetailsCall(source, type) ==
    /\ phase = "idle"
    /\ UNCHANGED components
    /\ request' = LookupRequest("details", source, type, NoValue)
    /\ IF ~SourceSupported(source) THEN RejectSource
       ELSE IF ~HasAttr(source, "get_details")
            \* the HTTPException(400) raised inside the try is an Exception
            THEN RespondDirectly(InternalError)
            ELSE AwaitAdapter(source, "get_details",
                              DetailsKindArg(source, type))

\* get_details after the await
GetDetailsReturn ==
    /\ Resumes("details")
    /\ UNCHANGED components
    /\ FinishLookup(
         CASE lookup_result.kind = "raised" -> InternalError
           [] lookup_result.kind = "object" ->
                ApiResponse(TRUE, FString("Details recuperes avec succes", << >>),
                            ObjectOf(ScraperResultToDict(lookup_result.value)),
                            << request.source >>)
           [] OTHER ->
                ApiResponse(FALSE, FString("Contenu non trouve", << >>),
                            NullData, << request.source >>))

\* the VideoSource list get_sources and get_episode work with
SourcesOf(result) ==
    CASE result.kind = "list"   -> result.items
      [] result.kind = "object" -> result.value.sources
      [] OTHER                  -> << >>

\* the response of get_sources and get_episode after the await
SourcesResponse(result, source) ==
    IF result.kind = "raised" THEN InternalError
    ELSE ListResponse(SourcesToDicts(SourcesOf(result)),
                      "sources trouvees", "Aucune source", source)

\* get_sources up to the await
GetSourcesCall(source, type, episode_id) ==
    /\ phase = "idle"
    /\ UNCHANGED components
    /\ request' = LookupRequest("sources", source, type, episode_id)
    /\ IF ~SourceSupported(source) THEN RejectSource
       ELSE IF episode_id # NoValue
            THEN AwaitAdapter(source, "get_episode_sources", NoValue)
            ELSE IF type = "movie"
                 THEN AwaitAdapter(source, "get_details",
                                   DetailsKindArg(source, "movie"))
                 ELSE RespondDirectly(
                        ApiResponse(FALSE,
                                    FString("episode_id requis", << >>),
                                    NullData, << source >>))

\* get_sources after the await
GetSourcesReturn ==
    /\ Resumes("sources")
    /\ UNCHANGED components
    /\ FinishLookup(SourcesResponse(lookup_result, request.source))

\* get_episode up to the await
GetEpisodeCall(source, episode_id) ==
    /\ phase = "idle"
    /\ UNCHANGED components
    /\ request' = LookupRequest("episode", source, NoValue, episode_id)
    /\ IF ~SourceSupported(source) THEN RejectSource
       ELSE AwaitAdapter(source, "get_episode_sources", NoValue)

\* get_episode after the await
GetEpisodeReturn ==
    /\ Resumes("episode")
    /\ UNCHANGED components
    /\ FinishLookup(SourcesResponse(lookup_result, request.source))

\* get_download_links up to the await
GetDownloadLinksCall(source, episode_id) ==
    /\ phase = "idle"
    /\ UNCHANGED components
    /\ request' = LookupRequest("download", source, NoValue, episode_id)
    /\ IF ~SourceSupported(source) THEN RejectSource
       ELSE IF HasAttr(source, "get_download_links")
            THEN AwaitAdapter(source, "get_download_links", NoValue)
            ELSE RespondDirectly(
                   ApiResponse(FALSE, FString("Ce scraper ne supporte pas",
                                              << >>),
                               ListOf(<< >>), << source >>))

\* get_download_links after the await
GetDownloadLinksReturn ==
    /\ Resumes("download")
    /\ UNCHANGED components
    /\ FinishLookup(
         IF lookup_result.kind = "raised" THEN InternalError
         ELSE ListResponse(lookup_result.items, "liens trouves", "Aucun lien",
                           request.source))

\* get_trending: no adapter operation
GetTrending(source, type) ==
    /\ phase = "idle"
    /\ UNCHANGED components
    /\ request' = LookupRequest("trending", source, type, NoValue)
    /\ IF ~SourceSupported(source) THEN RejectSource
       ELSE RespondDirectly(
              ApiResponse(TRUE, FString("Utilisez /api/search", << >>),
                          ListOf(<< >>), << source >>))

\* the response has gone out; the server takes the next request
NextRequest ==
    /\ phase = "responded"
    /\ UNCHANGED components
    /\ phase' = "idle"
    /\ request' = NoRequest
    /\ scrapers_to_use' = << >>
    /\ search_results' = << >>
    /\ lookup_result' = Pending
    /\ invoked' = << >>
    /\ returned' = << >>
    /\ response' = NoResponse

\* query parameter `source` of /api/search: absent or a source id
OptionalSource == SourceInputs \cup { NoValue }
\* query parameter `type` of /api/multi-search, which the handler never reads
MultiTypeInputs == { "all" }
\* episode ids a caller may send
EpisodeInputs == { "ep1" }

Next ==
    \/ \E q \in QueryInputs, type \in TypeInputs, limit \in LimitInputs,
          source \in OptionalSource : SearchContentCall(q, type, limit, source)
    \/ \E i \in 1..Len(scrapers) : SearchTaskCompletes(i)
    \/ SearchContentReturn
    \/ \E q \in QueryInputs, type \in MultiTypeInputs, limit \in LimitInputs :
          MultiSearchCall(q, type, limit)
    \/ MultiSearchReturn
    \/ \E source \in SourceInputs, type \in TypeInputs :
          GetDetailsCall(source, type)
    \/ GetDetailsReturn
    \/ \E source \in SourceInputs, type \in TypeInputs,
          episode_id \in EpisodeInputs \cup { NoValue } :
          GetSourcesCall(source, type, episode_id)
    \/ GetSourcesReturn
    \/ \E source \in SourceInputs, episode_id \in EpisodeInputs :
          GetEpisodeCall(source, episode_id)
    \/ GetEpisodeReturn
    \/ \E source \in SourceInputs, episode_id \in EpisodeInputs \cup { NoValue } :
          GetDownloadLinksCall(source, episode_id)
    \/ GetDownloadLinksReturn
    \/ \E source \in SourceInputs, type \in TypeInputs : GetTrending(source, type)
    \/ LookupCompletes
    \/ NextRequest

Spec == Init /\ [][Next]_vars

TypeOK ==
    /\ phase \in { "idle", "fanout", "lookup", "responded" }
    /\ Len(search_results) = Len(scrapers_to_use)
    /\ Len(returned) = Len(invoked)

(***************************************************************************)
(* Vocabulary of the properties, taken from the history variables and      *)
(* from the response, not from the handlers' intermediate values.          *)
(***************************************************************************)
Responded == phase = "responded"
SearchResponded ==
    Responded /\ request.endpoint \in { "search", "multi-search" }
LookupEndpoints == { "details", "sources", "episode", "download", "trending" }
LookupResponded == Responded /\ request.endpoint \in LookupEndpoints

Elems(seq) == { seq[i] : i \in 1..Len(seq) }

\* the adapter ids queried for the request, in invocation order
Queried == [ i \in 1..Len(invoked) |-> invoked[i].name ]

\* invocations that raised / that returned at least one result
FailedAt(i) == returned[i].kind = "raised"
YieldedAt(i) == returned[i].kind = "list" /\ Len(returned[i].items) > 0
FailedNames == { invoked[i].name : i \in { j \in 1..Len(invoked) : FailedAt(j) } }
YieldingNames == { invoked[i].name : i \in { j \in 1..Len(invoked) : YieldedAt(j) } }

\* what invocation i contributed: its results under the registry id
Contribution(i) ==
    IF returned[i].kind = "list"
    THEN [ k \in 1..Len(returned[i].items) |->
             [ id |-> returned[i].items[k].id,
               title |-> returned[i].items[k].title,
               source |-> invoked[i].name ] ]
    ELSE << >>

\* the merged candidates: the contributions concatenated in selection order
RECURSIVE CandidatesUpTo(_)
CandidatesUpTo(n) ==
    IF n = 0 THEN << >> ELSE CandidatesUpTo(n - 1) \o Contribution(n)
Candidates == CandidatesUpTo(Len(invoked))

\* items of the response data
DataItems == response.data.items

\* the cap of the endpoint on the number of returned items
Cap == IF request.endpoint = "search" THEN request.limit ELSE 3 * request.limit

\* the title contains the query, case-insensitively
Matches(title, q) == Contains(LowerStr(title), LowerStr(q))

(***************************************************************************)
(* C1  Partial failure of a search fan-out: whatever subset of the         *)
(* selected adapters raises, a normal response is produced, every item of  *)
(* its data is a result of an adapter that did not fail, the results of    *)
(* the others are all there when they fit under the cap, and no failing    *)
(* adapter is listed in sources_used.                                      *)
(***************************************************************************)
C1_PartialFailureIsolated ==
    SearchResponded =>
        /\ response.status = 200
        /\ \A x \in Elems(DataItems) :
             /\ x.source \notin FailedNames
             /\ x \in Elems(Candidates)
        /\ Len(Candidates) <= Cap => Elems(Candidates) \subseteq Elems(DataItems)
        /\ Elems(response.sources_used) \cap FailedNames = {}

\* one adapter failed and two others delivered
C1_Witness ==
    /\ SearchResponded
    /\ request.endpoint = "multi-search"
    /\ Cardinality(FailedNames) = 1
    /\ response.status = 200
    /\ Len(response.sources_used) = 2
    /\ Len(DataItems) >= 2

(***************************************************************************)
(* C2  sources_used of a search response is exactly the selected adapter   *)
(* ids whose search returned at least one result, in selection order.      *)
(***************************************************************************)
C2_SourcesUsedExact ==
    SearchResponded =>
        /\ response.status = 200
        /\ Elems(response.sources_used) = YieldingNames
        /\ \A a, b \in 1..Len(response.sources_used) :
             a < b =>
               \E i, j \in 1..Len(invoked) :
                 /\ i < j
                 /\ invoked[i].name = response.sources_used[a]
                 /\ invoked[j].name = response.sources_used[b]

\* an adapter returned an empty list, one raised, others returned results
C2_Witness ==
    /\ SearchResponded
    /\ \E i \in 1..Len(invoked) :
         returned[i].kind = "list" /\ Len(returned[i].items) = 0
    /\ FailedNames # {}
    /\ Len(response.sources_used) >= 2

(***************************************************************************)
(* Ranking vocabulary: the order the spec gives to merged results.         *)
(***************************************************************************)
\* x must come before y by (title does not match, title)
RankedBefore(x, y, q) ==
    \/ Matches(x.title, q) /\ ~Matches(y.title, q)
    \/ /\ Matches(x.title, q) = Matches(y.title, q)
       /\ StrLess(x.title, y.title)

\* x and y tie on the key
RankTie(x, y, q) == ~RankedBefore(x, y, q) /\ ~RankedBefore(y, x, q)

\* the number of candidates a stable sort puts before candidate p
StableRank(p, q) ==
    Cardinality({ r \in 1..Len(Candidates) :
                    \/ RankedBefore(Candidates[r], Candidates[p], q)
                    \/ RankTie(Candidates[r], Candidates[p], q) /\ r < p })

\* the data is the head of the candidates put in stable rank order
RankedThenTruncated(q) ==
    \A i \in 1..Len(DataItems) :
        \E p \in 1..Len(Candidates) :
            /\ Candidates[p] = DataItems[i]
            /\ StableRank(p, q) = i - 1

(***************************************************************************)
(* C3  The data of /api/search is merged and ranked before truncation:     *)
(* every item whose title contains the query case-insensitively precedes   *)
(* every item whose title does not, inside each group the titles are in    *)
(* lexical order, and no candidate left out ranks before a returned one.   *)
(***************************************************************************)
C3_SearchRankedBeforeTruncation ==
    (Responded /\ request.endpoint = "search") =>
        /\ \A i, j \in 1..Len(DataItems) :
             i < j => ~RankedBefore(DataItems[j], DataItems[i], request.q)
        /\ \A x \in Elems(Candidates) \ Elems(DataItems) :
             \A y \in Elems(DataItems) : ~RankedBefore(x, y, request.q)

(***************************************************************************)
(* C4  The data of /api/multi-search is the merged results sorted stably   *)
(* by (title does not contain the query case-insensitively, title) and     *)
(* then truncated: matching titles first, ties in the concatenation order  *)
(* of the adapter registry.                                                *)
(***************************************************************************)
C4_MultiSearchStablyRanked ==
    (Responded /\ request.endpoint = "multi-search") =>
        /\ response.status = 200
        /\ RankedThenTruncated(request.q)

\* the sort moved a matching title in front of a non-matching one that an
\* earlier adapter returned, two returned items tie, and the truncation cut
C4_Witness ==
    /\ Responded /\ request.endpoint = "multi-search"
    /\ response.status = 200
    /\ Len(Candidates) > Len(DataItems)
    /\ \E i, j \in 1..Len(DataItems) :
         /\ i < j
         /\ RankTie(DataItems[i], DataItems[j], request.q)
    /\ \E i \in 1..Len(DataItems), p, r \in 1..Len(Candidates) :
         /\ Candidates[p] = DataItems[1]
         /\ Candidates[r] = DataItems[i]
         /\ r < p
         /\ Matches(DataItems[1].title, request.q)
         /\ ~Matches(DataItems[i].title, request.q)

(***************************************************************************)
(* C5  /api/search returns exactly min(limit, N) items and                 *)
(* /api/multi-search exactly min(3*limit, N) items of its N merged         *)
(* candidates, and the returned sequence is a prefix of the merged         *)
(* sequence (the sorted one for /api/multi-search).                        *)
(***************************************************************************)
C5_TruncationExact ==
    SearchResponded =>
        /\ response.status = 200
        /\ Len(DataItems) = Min(Cap, Len(Candidates))
        /\ LET merged ==
                 IF request.endpoint = "search" THEN Candidates
                 ELSE SortByRelevance(Candidates, LowerStr(request.q),
                                      Len(Candidates))
           IN DataItems = SubSeq(merged, 1, Len(DataItems))

\* more candidates than the cap, at the largest limit
C5_Witness ==
    /\ SearchResponded
    /\ request.limit > 1
    /\ Len(Candidates) > Cap
    /\ Len(DataItems) = Cap

(***************************************************************************)
(* C6  /api/search without an explicit source queries, for a content kind  *)
(* anime, movie or series, exactly the adapter ids DEFAULT_SITES lists     *)
(* for that kind, in the mapping's order.                                  *)
(***************************************************************************)
C6_DefaultSelectionFollowsConfig ==
    ( /\ phase # "idle"
      /\ request.endpoint = "search"
      /\ request.source = NoValue
      /\ request.type \in DOMAIN DEFAULT_SITES )
    => Queried = DEFAULT_SITES[request.type]

(***************************************************************************)
(* C7  as stated: /api/search with an explicit source id queries only the  *)
(* adapter with that id, whatever the kind filter.                         *)
(***************************************************************************)
C7_ExplicitSourceOnlyQueried ==
    ( /\ phase # "idle"
      /\ request.endpoint = "search"
      /\ request.source # NoValue )
    => Queried = << request.source >>

(***************************************************************************)
(* C7  as amended: /api/search with an explicit source id that is in the   *)
(* adapter registry queries only the adapter with that id, whatever the    *)
(* kind filter; with a source id that is not in the registry it queries    *)
(* what the same request without a source queries.                         *)
(***************************************************************************)
C7_RegisteredSourceOnlyQueried ==
    ( /\ phase # "idle"
      /\ request.endpoint = "search"
      /\ request.source # NoValue )
    => IF request.source \in ScraperIds
       THEN Queried = << request.source >>
       ELSE Queried = SelectScrapers(NoValue, request.type)

\* a registered source outside the default sets, with a kind filter whose
\* defaults are other adapters: only it was queried and it answered
C7_Witness ==
    /\ Responded
    /\ request.endpoint = "search"
    /\ request.source = "zoro"
    /\ request.type = "movie"
    /\ Queried = << "zoro" >>
    /\ response.sources_used = << "zoro" >>

(***************************************************************************)
(* C8  On every endpoint a failure raised inside an adapter operation      *)
(* becomes an empty adapter-scoped result and never a hard error: the      *)
(* response is a normal one, and on a single-adapter lookup it has         *)
(* success = false and no data.                                            *)
(***************************************************************************)
C8_AdapterFailureNeverHardError ==
    (Responded /\ FailedNames # {}) =>
        /\ response.status = 200
        /\ request.endpoint \in LookupEndpoints =>
             /\ response.success = FALSE
             /\ \/ response.data.kind = "none"
                \/ response.data.kind = "list" /\ response.data.items = << >>

(***************************************************************************)
(* C9  A search in which no selected adapter yields a result answers       *)
(* normally with success = false, a non-empty message, empty data and      *)
(* empty sources_used; and in every search response success is true        *)
(* exactly when data is non-empty.                                         *)
(***************************************************************************)
C9_ZeroYieldReported ==
    SearchResponded =>
        /\ response.status = 200
        /\ response.success = (Len(DataItems) > 0)
        /\ YieldingNames = {} =>
             /\ response.success = FALSE
             /\ NonEmptyMessage(response.message)
             /\ DataItems = << >>
             /\ response.sources_used = << >>

\* some adapters failed, the others returned empty lists
C9_Witness ==
    /\ SearchResponded
    /\ Len(invoked) >= 3
    /\ FailedNames # {}
    /\ \E i \in 1..Len(invoked) : returned[i].kind = "list"
    /\ YieldingNames = {}
    /\ response.success = FALSE

(***************************************************************************)
(* C10  A single-adapter lookup answers with the caller-input error 400    *)
(* exactly when its source id is not in the adapter registry, and then no  *)
(* adapter operation has been invoked.                                     *)
(***************************************************************************)
C10_UnknownSourceIsCallerError ==
    /\ LookupResponded =>
         response.status = 400 <=> request.source \notin ScraperIds
    /\ (request.endpoint \in LookupEndpoints
        /\ request.source \notin ScraperIds) => invoked = << >>

\* a source that is configured as a site but has no adapter is refused
C10_Witness ==
    /\ LookupResponded
    /\ request.endpoint = "sources"
    /\ request.source = "tmdb"
    /\ response.status = 400
    /\ invoked = << >>

(***************************************************************************)
(* FETCH RESILIENCE LAYER (src/scrapers/utils.py) and its use by the       *)
(* adapters.  A logical fetch is the first page fetch of an adapter        *)
(* operation: the aiohttp GET of fetch_page / fetch_json, the synchronous  *)
(* `requests` GET they fall back to when the aiohttp GET raised, and the   *)
(* cloudscraper GET of bypass_cloudflare in the operations that call it.   *)
(* The tasks share one asyncio event loop: a task suspended in the aiohttp *)
(* GET leaves the loop to the others, a task inside a synchronous GET      *)
(* keeps it.                                                               *)
(***************************************************************************)
\* config.py SITES_CONFIG[name].cloudflare_protected
cloudflare_protected(name) == name \in { "zoro", "fmovies", "sflix", "lookmovie" }

\* the adapter operations that fetch a page
FetchOps == { "search", "get_details", "get_episode_sources" }

\* the function an operation fetches its first page with
FetchFunction(name, op) ==
    CASE name = "animesama" /\ op = "search" -> "session.get"
      [] name \in { "lookmovie", "vidsrc" } -> "fetch_json"
      [] name \in { "zoro", "sflix", "fmovies" }
         /\ op = "get_episode_sources" -> "fetch_json"
      [] OTHER -> "fetch_page"

\* the operations that call bypass_cloudflare when the fetch gave no body
UsesBypass(name, op) ==
    \/ op = "get_details" /\ name \in { "gogoanime", "zoro", "sflix", "fmovies" }
    \/ op = "search" /\ name = "fmovies"

\* the operations whose first fetch goes through the fetch layer
FetchSites ==
    { site \in ScraperIds \X FetchOps :
        FetchFunction(site[1], site[2]) # "session.get" }

\* how one HTTP GET can end: 200 with a readable body, another status, a
\* connection error, a timeout, 200 with a body that cannot be decoded
HttpOutcomes == { "ok", "status", "error", "timeout", "undecodable" }

\* the try block of fetch_page / fetch_json: the body, None, or the jump
\* into `except Exception`
aiohttp_get(fn, outcome) ==
    CASE outcome = "ok"     -> "body"
      [] outcome = "status" -> "none"
      [] OTHER              -> "except"

\* fetch_page_sync whose except clause is missing
fetch_page_sync_uncaught(outcome) ==
    CASE outcome \in { "ok", "undecodable" } -> "body"
      [] outcome = "status"                  -> "none"
      [] OTHER                               -> "raised"

\* utils.py fetch_page_sync: response.text never fails to decode
fetch_page_sync(outcome) ==
    CASE outcome \in { "ok", "undecodable" } -> "body"
      [] OTHER                               -> "none"

\* utils.py fetch_json_sync: response.json() raises inside the try
fetch_json_sync(outcome) ==
    IF outcome = "ok" THEN "body" ELSE "none"

\* the synchronous fallback of fetch_page / fetch_json
sync_get(fn, outcome) ==
    IF fn = "fetch_json" THEN fetch_json_sync(outcome)
    ELSE fetch_page_sync(outcome)

\* utils.py bypass_cloudflare
bypass_cloudflare(outcome) ==
    CASE outcome \in { "ok", "undecodable" } -> "body"
      [] OTHER                               -> "none"

\* the synchronous fallback tried again while it gives no body
NextStageRetrying(stage, r, bypass) ==
    CASE stage = "primary" /\ r = "except"                   -> "sync"
      [] stage = "sync" /\ r = "none"                        -> "sync"
      [] stage = "primary" /\ r = "none" /\ bypass           -> "bypass"
      [] OTHER                                               -> "done"

\* what follows an attempt that gave r: the synchronous fallback inside
\* fetch_page, the adapter's `if not html: html = bypass_cloudflare(...)`,
\* or the end of the logical fetch
NextStage(stage, r, bypass) ==
    CASE stage = "primary" /\ r = "except"                       -> "sync"
      [] stage \in { "primary", "sync" } /\ r = "none" /\ bypass -> "bypass"
      [] OTHER                                                   -> "done"

\* the HTTP client each stage sends its GET with
ClientOf(stage) ==
    CASE stage = "primary" -> "aiohttp"
      [] stage = "sync"    -> "requests"
      [] stage = "bypass"  -> "cloudscraper"

\* the task is inside a synchronous GET
Blocking(t) == fetch_tasks[t].stage \in { "sync", "bypass" }

\* the event loop can run task t: no other task is inside a synchronous call
CanRun(t) == \A u \in Tasks \ { t } : ~Blocking(u)

\* utils.py get_random_headers
get_random_headers == [ Accept |-> "text/html", Encoding |-> "gzip, deflate" ]

\* `headers=None`: the caller gave no headers
NoHeaders == [ none |-> TRUE ]

\* the fetch functions that ask for JSON
JsonFetches == { "fetch_json", "fetch_json_sync" }

\* a variant that sets the Accept header of whatever dict it works with
PrepareHeadersAcceptAlways(fn, passed) ==
    LET headers == IF passed = NoHeaders THEN get_random_headers ELSE passed
    IN  [ alias   |-> passed # NoHeaders,
          headers |-> IF fn \in JsonFetches
                      THEN [ headers EXCEPT !.Accept = "application/json" ]
                      ELSE headers ]

\* the head of fetch_page / fetch_json and of their _sync twins: without
\* headers a fresh dict is made (and, for JSON, its Accept set); otherwise
\* the function works with the caller's own dict, untouched
PrepareHeaders(fn, passed) ==
    IF passed = NoHeaders
    THEN [ alias   |-> FALSE,
           headers |-> IF fn \in JsonFetches
                       THEN [ get_random_headers EXCEPT
                                !.Accept = "application/json" ]
                       ELSE get_random_headers ]
    ELSE [ alias |-> TRUE, headers |-> passed ]

\* the adapter after a fetch function ran with self.headers: what the
\* function wrote into the dict it shares with the adapter stays there
AfterFetchWith(adapter, fn) ==
    LET prepared == PrepareHeaders(fn, adapter.headers)
    IN  IF prepared.alias
        THEN [ adapter EXCEPT !.headers = prepared.headers ]
        ELSE adapter

\* the synchronous twin the except branch of a fetch function falls back on
SyncTwin(fn) == IF fn = "fetch_json" THEN "fetch_json_sync" ELSE "fetch_page_sync"

\* the orchestrator is not part of the fetch-layer specification
FetchFrame ==
    UNCHANGED << orchestrator, retry, adapter_call, serialized, pool, overtaken >>

\* the task moves on after an attempt gave r
Advance(t, r) ==
    LET task == fetch_tasks[t]
        next == NextStage(task.stage, r, UsesBypass(task.name, task.op))
        \* the value fetch_page / fetch_json returned to the operation
        fetched == IF task.stage = "bypass" \/ r = "except"
                   THEN task.fetched ELSE r
    IN fetch_tasks' =
         [ fetch_tasks EXCEPT ![t] =
             [ task EXCEPT
                 !.stage = next,
                 !.fetched = fetched,
                 !.requests = IF next = "done" THEN @
                              ELSE Append(@, ClientOf(next)),
                 !.result = IF next = "done" THEN r ELSE @ ] ]

\* an adapter operation reaches `await fetch_page(...)`: the aiohttp GET
StartFetch(t, name, op) ==
    /\ fetch_tasks[t].stage = "idle"
    /\ CanRun(t)
    /\ << name, op >> \in FetchSites
    /\ fetch_tasks' =
         [ fetch_tasks EXCEPT ![t] =
             [ stage |-> "primary", name |-> name, op |-> op,
               requests |-> << "aiohttp" >>,
               fetched |-> "pending", result |-> "pending" ] ]
    /\ adapters' = [ adapters EXCEPT
                       ![name] = AfterFetchWith(@, FetchFunction(name, op)) ]
    /\ FetchFrame

\* the aiohttp GET ends and the loop resumes the task
PrimaryCompletes(t, outcome) ==
    /\ fetch_tasks[t].stage = "primary"
    /\ CanRun(t)
    /\ Advance(t, aiohttp_get(FetchFunction(fetch_tasks[t].name,
                                            fetch_tasks[t].op), outcome))
    /\ adapters' =
         IF fetch_tasks'[t].stage = "sync"
         THEN [ adapters EXCEPT
                  ![fetch_tasks[t].name] =
                     AfterFetchWith(@, SyncTwin(FetchFunction(
                                           fetch_tasks[t].name,
                                           fetch_tasks[t].op))) ]
         ELSE adapters
    /\ FetchFrame

\* the synchronous GET of fetch_page_sync / fetch_json_sync ends
SyncCompletes(t, outcome) ==
    /\ fetch_tasks[t].stage = "sync"
    /\ Advance(t, sync_get(FetchFunction(fetch_tasks[t].name,
                                         fetch_tasks[t].op), outcome))
    /\ UNCHANGED adapters
    /\ FetchFrame

\* the cloudscraper GET of bypass_cloudflare ends
BypassCompletes(t, outcome) ==
    /\ fetch_tasks[t].stage = "bypass"
    /\ Advance(t, bypass_cloudflare(outcome))
    /\ UNCHANGED adapters
    /\ FetchFrame

\* the operation goes on with what it fetched; the task is free again
FetchReturns(t) ==
    /\ fetch_tasks[t].stage = "done"
    /\ CanRun(t)
    /\ fetch_tasks' = [ fetch_tasks EXCEPT ![t] = IdleTask ]
    /\ UNCHANGED adapters
    /\ FetchFrame

FetchNext ==
    \/ \E t \in Tasks, site \in FetchSites : StartFetch(t, site[1], site[2])
    \/ \E t \in Tasks, outcome \in HttpOutcomes : PrimaryCompletes(t, outcome)
    \/ \E t \in Tasks, outcome \in HttpOutcomes : SyncCompletes(t, outcome)
    \/ \E t \in Tasks, outcome \in HttpOutcomes : BypassCompletes(t, outcome)
    \/ \E t \in Tasks : FetchReturns(t)

FetchSpec == Init /\ [][FetchNext]_vars

\* tasks whose logical fetch has ended
FetchDone(t) == fetch_tasks[t].stage = "done"

(***************************************************************************)
(* C11  The challenge-solving fetch bypass_cloudflare is invoked exactly   *)
(* when the primary fetch returned no body and the adapter's site is       *)
(* flagged cloudflare_protected: never for an unprotected adapter, always  *)
(* for a protected one whose primary fetch failed.                         *)
(***************************************************************************)
C11_BypassIffFailedAndProtected ==
    \A t \in Tasks :
        FetchDone(t) =>
            ("cloudscraper" \in Elems(fetch_tasks[t].requests)
             <=> /\ fetch_tasks[t].fetched = "none"
                 /\ cloudflare_protected(fetch_tasks[t].name))

C13_FetchNeverRaises ==
    \A t \in Tasks :
        fetch_tasks[t].stage # "idle" =>
            /\ fetch_tasks[t].fetched \in { "pending", "body", "none" }
            /\ fetch_tasks[t].result \in { "pending", "body", "none" }
            /\ FetchDone(t) =>
                 /\ fetch_tasks[t].fetched \in { "body", "none" }
                 /\ fetch_tasks[t].result \in { "body", "none" }

\* both requests of fetch_page failed with an exception and None came back
C13_Witness ==
    \E t \in Tasks :
        /\ FetchDone(t)
        /\ fetch_tasks[t].requests = << "aiohttp", "requests" >>
        /\ fetch_tasks[t].fetched = "none"
        /\ fetch_tasks[t].result = "none"
        /\ FetchFunction(fetch_tasks[t].name, fetch_tasks[t].op) = "fetch_page"

(***************************************************************************)
(* C14  While one adapter invocation is inside the blocking fallback fetch *)
(* (bypass_cloudflare or the synchronous fallback request), every other    *)
(* running invocation can still take steps.                                *)
(***************************************************************************)
C14_FallbackNeverHoldsLoop ==
    \A t, u \in Tasks :
        (t # u /\ Blocking(t) /\ fetch_tasks[u].stage = "primary") => CanRun(u)

(***************************************************************************)
(* BOUNDED CONCURRENCY GATE (src/scrapers/utils.py AsyncRequestPool).      *)
(* The pool guards its fetch with a semaphore of max_concurrent permits;   *)
(* neither the orchestrator nor any adapter creates a pool, so the fetch   *)
(* of every task of a fan-out is sent as soon as the task starts.          *)
(***************************************************************************)
\* AsyncRequestPool.__init__(self, max_concurrent: int = 5)
max_concurrent == 5

\* the fetches in flight: each task of the fan-out awaits the one GET of its
\* adapter's search until its slot is filled
InFlight ==
    IF phase = "fanout"
    THEN Cardinality({ i \in 1..Len(returned) : returned[i].kind = "pending" })
    ELSE IF phase = "lookup" /\ lookup_result.kind = "pending" THEN 1 ELSE 0

(***************************************************************************)
(* C15  In every reachable state the number of outbound fetches in flight  *)
(* at once never exceeds the cap of the bounded concurrency gate.          *)
(***************************************************************************)
C15_InFlightWithinGateCap == InFlight <= max_concurrent

(***************************************************************************)
(* /api/search WITH AN ADAPTER THAT NEVER ANSWERS.  search_with_scraper    *)
(* awaits scraper.search with no asyncio.wait_for around it and the        *)
(* handler awaits the gather of every task; the synchronous fallback GET   *)
(* has a per-read timeout only, so an invocation may stay pending for      *)
(* ever.  The steps are those of search_content; a task may also hang.     *)
(***************************************************************************)
\* the invocation will never complete
Hung == [kind |-> "hung"]

\* the task's `await scraper.search(query, limit)` is never resumed
SearchTaskHangs(i) ==
    /\ phase = "fanout"
    /\ i \in 1..Len(search_results)
    /\ returned[i].kind = "pending"
    /\ returned' = [ returned EXCEPT ![i] = Hung ]
    /\ UNCHANGED << phase, request, scrapers_to_use, search_results,
                    lookup_result, invoked, response >>
    /\ UNCHANGED components

\* a task that has not hung completes
RunningTaskCompletes(i) ==
    /\ i \in 1..Len(returned)
    /\ returned[i].kind = "pending"
    /\ SearchTaskCompletes(i)

DeadlineNext ==
    \/ \E q \in QueryInputs, type \in TypeInputs, limit \in LimitInputs,
          source \in OptionalSource : SearchContentCall(q, type, limit, source)
    \/ \E i \in 1..Len(scrapers) : RunningTaskCompletes(i)
    \/ \E i \in 1..Len(scrapers) : SearchTaskHangs(i)
    \/ SearchContentReturn
    \/ NextRequest

DeadlineSpec == Init /\ [][DeadlineNext]_vars

\* every invocation of the fan-out has completed or will never complete
NothingMoreToCome ==
    /\ phase = "fanout"
    /\ \A i \in 1..Len(returned) : returned[i].kind # "pending"

(***************************************************************************)
(* C16  A search request always returns a response, built from the         *)
(* adapters that did complete, even when some adapter never completes:     *)
(* once every invocation has completed or is stuck for ever, the handler   *)
(* can take its step to the response.                                      *)
(***************************************************************************)
C16_RespondsDespiteHungAdapter ==
    NothingMoreToCome => ENABLED SearchContentReturn

(***************************************************************************)
(* retry_request (src/scrapers/utils.py): one call of the wrapper it       *)
(* builds.  func is any callable: each call of it raises or returns a      *)
(* value, truthy or falsy.                                                 *)
(***************************************************************************)
\* largest attempt count and delay the wrapper is built with
MaxRetries == 3
MaxDelay == 2

\* what one call of func can do: raise, or return a value
FuncValues == { "None", "empty", "v1", "v2" }
FuncOutcomes ==
    { [kind |-> "raise"] } \cup { [kind |-> "return", value |-> v] : v \in FuncValues }

\* Python truth of a value: None and the empty values are falsy
Truthy(v) == v \notin { "None", "empty" }

\* range(max_retries) with one attempt too many
AttemptsOneMore(max_retries) == 0..max_retries

\* range(max_retries)
Attempts(max_retries) == 0..(max_retries - 1)

\* the try block of one attempt: the value returned by the wrapper, or
\* "continue" when func raised or returned a falsy value
TryFunc(outcome) ==
    IF outcome.kind = "return" /\ Truthy(outcome.value)
    THEN [kind |-> "return", value |-> outcome.value]
    ELSE [kind |-> "continue"]

\* a variant of the test that also sleeps after the last attempt
SleepsAfterLast(attempt, max_retries) == attempt < max_retries

\* `if attempt < max_retries - 1`: the wrapper sleeps before the next attempt
SleepsAfter(attempt, max_retries) == attempt < max_retries - 1

\* time.sleep(delay * (attempt + 1))
SleepTime(delay, attempt) == delay * (attempt + 1)

RetryFrame ==
    UNCHANGED << orchestrator, fetch_tasks, adapter_call, serialized, pool,
                 overtaken, adapters >>

\* the wrapper ends: `return result` or the final `return None`
RetryReturn(r, value) == [ r EXCEPT !.pc = "returned", !.result = value ]

\* wrapper(*args, **kwargs) is called and enters its loop
WrapperCall(max_retries, delay) ==
    /\ retry.pc = "idle"
    /\ LET r == [ pc |-> "call", max_retries |-> max_retries, delay |-> delay,
                  attempt |-> 0, outcomes |-> << >>, slept |-> << >>,
                  result |-> "pending" ]
       IN retry' = IF 0 \in Attempts(max_retries) THEN r
                   ELSE RetryReturn(r, "None")
    /\ RetryFrame

\* one iteration of the loop: func is called, then the wrapper returns,
\* sleeps and goes on, or leaves the loop
AttemptFunc(outcome) ==
    /\ retry.pc = "call"
    /\ LET tried == TryFunc(outcome)
           called == [ retry EXCEPT !.outcomes = Append(@, outcome) ]
           after == [ called EXCEPT
                        !.slept = IF SleepsAfter(retry.attempt, retry.max_retries)
                                  THEN Append(@, SleepTime(retry.delay,
                                                           retry.attempt))
                                  ELSE @,
                        !.attempt = @ + 1 ]
       IN retry' =
            IF tried.kind = "return" THEN RetryReturn(called, tried.value)
            ELSE IF after.attempt \in Attempts(retry.max_retries) THEN after
            ELSE RetryReturn(after, "None")
    /\ RetryFrame

\* the caller has the wrapper's result
WrapperDone ==
    /\ retry.pc = "returned"
    /\ retry' = RetryIdle
    /\ RetryFrame

RetryNext ==
    \/ \E max_retries \in 0..MaxRetries, delay \in 0..MaxDelay :
         WrapperCall(max_retries, delay)
    \/ \E outcome \in FuncOutcomes : AttemptFunc(outcome)
    \/ WrapperDone

RetrySpec == Init /\ [][RetryNext]_vars

\* the i-th call of func returned a truthy value
TruthyAt(i) ==
    /\ retry.outcomes[i].kind = "return"
    /\ Truthy(retry.outcomes[i].value)

(***************************************************************************)
(* C17  The wrapper built by retry_request(func, max_retries, delay)       *)
(* calls func at most max_retries times, stops at and returns the first    *)
(* truthy result, returns None when every attempt raised or returned a     *)
(* falsy value (with max_retries = 0 func is never called), and never      *)
(* lets an exception of func escape.                                       *)
(***************************************************************************)
C17_RetryContract ==
    retry.pc # "idle" =>
        LET n == Len(retry.outcomes) IN
        /\ n <= retry.max_retries
        /\ retry.pc \in { "call", "returned" }
        /\ \A i \in 1..(n - 1) : ~TruthyAt(i)
        /\ retry.pc = "call" => \A i \in 1..n : ~TruthyAt(i)
        /\ retry.pc = "returned" =>
             IF n > 0 /\ TruthyAt(n)
             THEN retry.result = retry.outcomes[n].value
             ELSE retry.result = "None" /\ n = retry.max_retries

\* func raised, then returned a falsy value, then a truthy one on the last
\* attempt allowed
C17_Witness ==
    /\ retry.pc = "returned"
    /\ Len(retry.outcomes) = 3
    /\ retry.max_retries = 3
    /\ retry.outcomes[1].kind = "raise"
    /\ retry.outcomes[2] = [kind |-> "return", value |-> "empty"]
    /\ retry.result = "v2"

(***************************************************************************)
(* SITE ADAPTERS (src/scrapers/anime_scrapers.py, movie_scrapers.py): one  *)
(* call of search or get_details, computed from what the site answered.    *)
(* No adapter has a try/except of its own.                                 *)
(***************************************************************************)
\* most entries a result page lists
MaxEntries == 3

\* the fetch gave no body: fetch_page / fetch_json (and the bypass) gave None
NoBody == [kind |-> "none"]
\* a body that lists n entries
PageOf(n) == [kind |-> "page", entries |-> n]
\* what a logical fetch of a listing hands to the adapter
Fetched == { NoBody } \cup { PageOf(n) : n \in 0..MaxEntries }

\* the answer to AnimeSama's own session.get: the HTTP outcome and, for a
\* readable 200, the entries of the JSON array
Replies ==
    { [outcome |-> "ok", entries |-> n] : n \in 0..MaxEntries }
    \cup { [outcome |-> o, entries |-> 0] : o \in HttpOutcomes \ { "ok" } }

\* the dict built for the k-th entry of a listing
Entry(name, k) == [ id |-> k, source |-> site_name(name) ]

\* `for item in items[:limit]` over a listing of n entries
FirstEntries(name, n, limit) ==
    [ k \in 1..Min(n, limit) |-> Entry(name, k) ]

\* search of the adapters that parse one fetched page or JSON document:
\* `if not html: return []`, then the entries up to limit
PageSearch(name, fetched, limit) ==
    IF fetched = NoBody THEN ListOf(<< >>)
    ELSE ListOf(FirstEntries(name, fetched.entries, limit))

\* LookMovieScraper.search: movies then shows, `return results[:limit]`
LookMovieSearch(name, data, series_data, limit) ==
    LET movies == IF data = NoBody THEN << >>
                  ELSE FirstEntries(name, data.entries, limit)
        shows == IF series_data = NoBody THEN << >>
                 ELSE FirstEntries(name, series_data.entries, limit)
    IN ListOf(Truncate(movies \o shows, limit))

\* AnimeSamaScraper.search: aiohttp used directly, nothing caught
AnimeSamaSearch(name, reply, limit) ==
    CASE reply.outcome = "ok"     -> ListOf(FirstEntries(name, reply.entries, limit))
      [] reply.outcome = "status" -> ListOf(<< >>)
      [] OTHER                    -> Raised

\* what the site can answer to the requests of adapter `name`'s search
SearchAnswers(name) ==
    CASE name = "animesama" -> { [reply |-> r] : r \in Replies }
      [] name = "lookmovie" ->
           { [first |-> f, second |-> g] : f \in Fetched, g \in Fetched }
      [] OTHER -> { [first |-> f] : f \in Fetched }

\* scraper.search(query, limit) of adapter `name`
AdapterSearch(name, limit, answer) ==
    CASE name = "animesama" -> AnimeSamaSearch(name, answer.reply, limit)
      [] name = "lookmovie" ->
           LookMovieSearch(name, answer.first, answer.second, limit)
      [] OTHER -> PageSearch(name, answer.first, limit)

\* the kinds a caller may name (main.py: "Type: movie, series, anime")
ContentTypes == { "movie", "series", "anime" }

\* the adapters whose get_details takes content_type
TakesContentType(name) == name \in { "sflix", "fmovies", "lookmovie", "vidsrc" }

\* the k-th Episode, Season or VideoSource of a detail resource
Numbered(n) == [ k \in 1..n |-> [number |-> k] ]

\* what the site holds for a detail resource: whether the detail fetch gave
\* a body, and how many episodes, seasons and sources it lists
DetailAnswers ==
    { [found |-> f, episodes |-> e, seasons |-> n, sources |-> v] :
        f \in BOOLEAN, e \in 0..MaxSources, n \in 0..MaxSources,
        v \in 0..MaxSources }

\* base_scraper.py ScraperResult with its three branches and declared counts
ContentDetails(type, episodes, episode_count, seasons, season_count, sources) ==
    [ type |-> type, episodes |-> episodes, episode_count |-> episode_count,
      seasons |-> seasons, season_count |-> season_count, sources |-> sources ]

\* get_details of the four anime adapters: type="anime", episodes=episodes
AnimeDetails(answer) ==
    ContentDetails("anime", Numbered(answer.episodes), answer.episodes,
                   << >>, 0, << >>)

\* get_details of SFlix, FMovies and VidSrc: type=content_type, then
\* `if content_type == "series"` the seasons, `else` the sources
TypedDetails(content_type, answer) ==
    IF content_type = "series"
    THEN ContentDetails(content_type, << >>, 0, Numbered(answer.seasons),
                        answer.seasons, << >>)
    ELSE ContentDetails(content_type, << >>, 0, << >>, 0,
                        Numbered(answer.sources))

\* LookMovieScraper.get_details: _get_movie_details for "movie", else
\* _get_series_details
LookMovieDetails(content_type, answer) ==
    IF content_type = "movie"
    THEN ContentDetails("movie", << >>, 0, << >>, 0, Numbered(answer.sources))
    ELSE ContentDetails("series", << >>, 0, Numbered(answer.seasons),
                        answer.seasons, << >>)

\* scraper.get_details(content_id[, content_type]) of adapter `name`
AdapterDetails(name, content_type, answer) ==
    IF ~answer.found THEN ReturnedNone
    ELSE LET kind == DetailsKind(name, content_type) IN
         ObjectOf(CASE ~TakesContentType(name) -> AnimeDetails(answer)
                    [] name = "lookmovie" -> LookMovieDetails(kind, answer)
                    [] OTHER -> TypedDetails(kind, answer))

AdapterFrame ==
    UNCHANGED << orchestrator, fetch_tasks, retry, serialized, pool, overtaken,
                 adapters >>

\* await scraper.search(query, limit) runs to its end
SearchRuns(name, limit, answer) ==
    /\ adapter_call = NoCall
    /\ answer \in SearchAnswers(name)
    /\ adapter_call' = [ op |-> "search", name |-> name, limit |-> limit,
                         answer |-> answer,
                         result |-> AdapterSearch(name, limit, answer) ]
    /\ AdapterFrame

\* await scraper.get_details(...) runs to its end; the anime adapters take
\* no content_type
DetailsRuns(name, content_type, answer) ==
    /\ adapter_call = NoCall
    /\ TakesContentType(name) \/ content_type = NoValue
    /\ adapter_call' = [ op |-> "get_details", name |-> name,
                         content_type |-> content_type, answer |-> answer,
                         result |-> AdapterDetails(name, content_type, answer) ]
    /\ AdapterFrame

(***************************************************************************)
(* EMBED REFERENCES AND VIDEO SOURCES.  A reference is kept in parts so    *)
(* that the tests the code makes on the text are computed: scheme is       *)
(* "https:" or "" (the text then starts with "//"), then host "." tld,     *)
(* path and tail, e.g. https: // mixdrop . co /e/ abc.                     *)
(***************************************************************************)
\* an embed or stream reference
Url(scheme, host, tld, path, tail) ==
    [ scheme |-> scheme, host |-> host, tld |-> tld, path |-> path,
      tail |-> tail ]

\* the empty string where a reference is expected
EmptyUrl == [ scheme |-> "", host |-> "", tld |-> "", path |-> "", tail |-> "" ]

\* src.startswith('//')
StartsWithSlashes(u) == u # EmptyUrl /\ u.scheme = ""

\* 'https:' + src
PrependHttps(u) == [ u EXCEPT !.scheme = "https:" ]

\* `if src.startswith('//'): src = 'https:' + src`
NormalizeScheme(u) == IF StartsWithSlashes(u) THEN PrependHttps(u) ELSE u

\* '.m3u8' in url
HasM3u8(u) == u.tail = "x.m3u8"

\* 'streamtape' in src, 'dood' in src, 'mixdrop' in src
HostIn(word, u) == u.host = word

\* the `patterns` dict of extract_video_url, in insertion order: host before
\* the dot, what may follow the dot ("*" for [^/]+), and the path before the id
patterns ==
    << [ host |-> "streamtape", name |-> "streamtape", tld |-> "com", path |-> "/e/" ],
       [ host |-> "doodstream", name |-> "dood",       tld |-> "*",   path |-> "/e/" ],
       [ host |-> "mixdrop",    name |-> "mixdrop",    tld |-> "*",   path |-> "/e/" ],
       [ host |-> "upstream",   name |-> "upstream",   tld |-> "to",  path |-> "/e/" ],
       [ host |-> "vidcloud",   name |-> "vidcloud",   tld |-> "*",   path |-> "/e/" ],
       [ host |-> "mp4upload",  name |-> "mp4upload",  tld |-> "com", path |-> "/embed-" ],
       [ host |-> "yourupload", name |-> "yourupload", tld |-> "com", path |-> "/embed/" ],
       [ host |-> "sbembed",    name |-> "sbembed",    tld |-> "com", path |-> "/embed/" ],
       [ host |-> "filemoon",   name |-> "filemoon",   tld |-> "sx",  path |-> "/e/" ],
       [ host |-> "voe",        name |-> "voe",        tld |-> "sx",  path |-> "/e/" ] >>

\* re.search(pattern, embed_url): name\.tld/path(\w+)
PatternMatches(pattern, u) ==
    /\ u.host = pattern.name
    /\ pattern.tld = "*" \/ u.tld = pattern.tld
    /\ u.path = pattern.path
    /\ u.tail # ""

\* the loop of extract_video_url from entry i on: the first match, else None
RECURSIVE ExtractFrom(_, _)
ExtractFrom(u, i) ==
    IF i > Len(patterns) THEN ReturnedNone
    ELSE IF PatternMatches(patterns[i], u)
         THEN ObjectOf([ host |-> patterns[i].host, embed_url |-> u ])
         ELSE ExtractFrom(u, i + 1)

\* utils.py extract_video_url(embed_url)
extract_video_url(u) == ExtractFrom(u, 1)

\* base_scraper.py VideoSource with url, type and is_m3u8 (default False)
MakeVideoSource(url, type, is_m3u8) ==
    [ url |-> url, type |-> type, is_m3u8 |-> is_m3u8 ]

\* the SourceType Gogoanime gives an iframe: substring tests in this order
GogoanimeEmbedType(u) ==
    CASE HostIn("streamtape", u) -> "streamtape"
      [] HostIn("dood", u)       -> "doodstream"
      [] HostIn("mixdrop", u)    -> "mixdrop"
      [] OTHER                   -> "iframe"

\* the references given to extract_video_url
ClassifyUrls ==
    { Url(sc, h, t, p, "abc") :
        sc \in { "https:", "" },
        h \in { "streamtape", "dood", "mixdrop", "upstream", "voe", "example" },
        t \in { "com", "co", "to", "sx" },
        p \in { "/e/", "/embed/", "/f/" } }

\* extract_video_url(embed_url) runs to its end
ExtractRuns(u) ==
    /\ adapter_call = NoCall
    /\ adapter_call' = [ op |-> "extract_video_url", embed_url |-> u,
                         result |-> extract_video_url(u) ]
    /\ AdapterFrame

(***************************************************************************)
(* get_episode_sources of the eight adapters, computed from what the site  *)
(* answers: the references of the episode page, or the server list and     *)
(* the answer of each server's source request.                             *)
(***************************************************************************)
\* most references on a page, most servers of an episode
MaxRefs == 2
MaxServers == 3

\* the sequences over S of length at most n
SeqsUpTo(S, n) == UNION { [ 1..k -> S ] : k \in 0..n }

\* [f(x) for x in seq]
MapSeq(seq, f(_)) == [ i \in 1..Len(seq) |-> f(seq[i]) ]

\* the references a site puts on its pages
PageUrls ==
    { Url(sc, h[1], h[2], "/e/", tail) :
        sc \in { "https:", "" },
        h \in { << "mixdrop", "co" >>, << "upstream", "to" >>,
                << "example", "com" >> },
        tail \in { "abc", "x.m3u8" } }

\* a reference attribute may be missing or empty
Refs == PageUrls \cup { EmptyUrl }

\* `if src:` / `if link:` / `if stream_url:`
NonEmptyRefs(refs) == SelectSeq(refs, LAMBDA u : u # EmptyUrl)

\* the answer of one server's source request: no body, or the links it lists
ServerAnswers ==
    { NoBody } \cup { [ kind |-> "links", links |-> l ] : l \in SeqsUpTo(Refs, 1) }

\* what the site can answer to adapter `name`'s get_episode_sources
SourceAnswers(name) ==
    CASE name \in { "zoro", "sflix" } ->
           { [ found |-> FALSE, servers |-> << >> ] }
           \cup { [ found |-> TRUE, servers |-> sv ] :
                    sv \in SeqsUpTo(ServerAnswers, MaxServers) }
      [] name = "gogoanime" ->
           { [ found |-> FALSE, refs |-> << >>, downloads |-> << >> ] }
           \cup { [ found |-> TRUE, refs |-> r, downloads |-> d ] :
                    r \in SeqsUpTo(Refs, MaxRefs), d \in SeqsUpTo(PageUrls, 1) }
      [] OTHER ->
           { [ found |-> FALSE, refs |-> << >> ] }
           \cup { [ found |-> TRUE, refs |-> r ] : r \in SeqsUpTo(Refs, MaxRefs) }

\* VideoSource(url=link, type=HLS if '.m3u8' in link else <other>,
\*             is_m3u8='.m3u8' in link)
StreamSource(u, other) ==
    MakeVideoSource(u, IF HasM3u8(u) THEN "hls" ELSE other, HasM3u8(u))

\* the iframe loop of Gogoanime: normalized, typed by host
GogoanimeEmbed(u) ==
    MakeVideoSource(NormalizeScheme(u), GogoanimeEmbedType(NormalizeScheme(u)),
                    FALSE)

\* a download link of Gogoanime: VideoSource(url=href, type=DIRECT)
GogoanimeDownload(u) == MakeVideoSource(u, "direct", FALSE)

\* the iframe loop of AnimeHeaven, AnimeSama: normalized, type IFRAME
IframeSource(u) == MakeVideoSource(NormalizeScheme(u), "iframe", FALSE)

\* FMovies.get_episode_sources: VideoSource(url=link, type=IFRAME)
FMoviesLink(u) == MakeVideoSource(u, "iframe", FALSE)

\* LookMovie: VideoSource(url=stream_url, type=HLS, is_m3u8=True)
LookMovieStream(u) == MakeVideoSource(u, "hls", TRUE)

\* VidSrc.get_episode_sources: every entry, an empty url included
VidSrcSource(u) == StreamSource(u, "iframe")

\* Zoro, SFlix: VideoSource(url=link, HLS or DIRECT)
ServerLink(u) == StreamSource(u, "direct")

\* a server without a link still adds a source
ServerSourcesUnfiltered(server) ==
    IF server = NoBody THEN << >>
    ELSE MapSeq(server.links, ServerLink)

\* the sources one server adds: nothing without a body or a link
ServerSources(server) ==
    IF server = NoBody THEN << >>
    ELSE MapSeq(NonEmptyRefs(server.links), ServerLink)

\* the server loop over the first n servers, in server order
RECURSIVE ChainSources(_, _)
ChainSources(servers, n) ==
    IF n = 0 THEN << >>
    ELSE ChainSources(servers, n - 1) \o ServerSources(servers[n])

\* scraper.get_episode_sources(content_id, episode_id) of adapter `name`
AdapterSources(name, answer) ==
    IF ~answer.found THEN ListOf(<< >>)
    ELSE ListOf(
      CASE name \in { "zoro", "sflix" } ->
             ChainSources(answer.servers, Len(answer.servers))
        [] name = "gogoanime" ->
             MapSeq(NonEmptyRefs(answer.refs), GogoanimeEmbed)
             \o MapSeq(answer.downloads, GogoanimeDownload)
        [] name \in { "animeheaven", "animesama" } ->
             MapSeq(NonEmptyRefs(answer.refs), IframeSource)
        [] name = "fmovies" -> MapSeq(NonEmptyRefs(answer.refs), FMoviesLink)
        [] name = "lookmovie" ->
             MapSeq(NonEmptyRefs(answer.refs), LookMovieStream)
        [] name = "vidsrc" -> MapSeq(answer.refs, VidSrcSource))

\* await scraper.get_episode_sources(...) runs to its end
SourcesRuns(name, answer) ==
    /\ adapter_call = NoCall
    /\ adapter_call' = [ op |-> "get_episode_sources", name |-> name,
                         answer |-> answer,
                         result |-> AdapterSources(name, answer) ]
    /\ AdapterFrame

\* the caller has the result of the operation
AdapterReturns ==
    /\ adapter_call # NoCall
    /\ adapter_call' = NoCall
    /\ AdapterFrame

\* a caller runs search on some adapter
SearchCalled ==
    /\ adapter_call = NoCall
    /\ \E name \in ScraperIds, limit \in LimitInputs :
         \E answer \in SearchAnswers(name) : SearchRuns(name, limit, answer)

\* a caller runs get_details on some adapter
DetailsCalled ==
    /\ adapter_call = NoCall
    /\ \E name \in ScraperIds, content_type \in ContentTypes \cup { NoValue },
          answer \in DetailAnswers : DetailsRuns(name, content_type, answer)

\* a caller classifies an embed reference
ExtractCalled ==
    /\ adapter_call = NoCall
    /\ \E u \in ClassifyUrls : ExtractRuns(u)

\* a caller runs get_episode_sources on some adapter
SourcesCalled ==
    /\ adapter_call = NoCall
    /\ \E name \in ScraperIds :
         \E answer \in SourceAnswers(name) : SourcesRuns(name, answer)

AdapterNext ==
    \/ SearchCalled
    \/ DetailsCalled
    \/ ExtractCalled
    \/ SourcesCalled
    \/ AdapterReturns

AdapterSpec == Init /\ [][AdapterNext]_vars

\* the search found nothing: no body, or a body without entries
NothingFound(answer) ==
    \A f \in DOMAIN answer :
        IF f = "reply" THEN answer[f].outcome # "ok" \/ answer[f].entries = 0
        ELSE answer[f] = NoBody \/ answer[f].entries = 0

(***************************************************************************)
(* C18  For every adapter, search(query, limit) returns a list (never      *)
(* None) of at most limit items; when the source has no match or the       *)
(* fetch yields no body, the list is empty and no error is raised.         *)
(***************************************************************************)
C18_SearchReturnsBoundedList ==
    adapter_call.op = "search" =>
        /\ adapter_call.result.kind = "list"
        /\ Len(adapter_call.result.items) <= adapter_call.limit
        /\ NothingFound(adapter_call.answer) =>
             adapter_call.result.items = << >>

\* the branches of a ContentDetails that hold something
PopulatedBranches(d) ==
    { b \in { "episodes", "seasons", "sources" } : Len(d[b]) > 0 }

\* the branch a kind may populate
BranchOfKind(type) ==
    CASE type = "movie"  -> { "sources" }
      [] type = "anime"  -> { "episodes" }
      [] type = "series" -> { "seasons" }
      [] OTHER           -> { }

(***************************************************************************)
(* C19  Every ContentDetails returned by an adapter's get_details has at   *)
(* most one non-empty branch among episodes, seasons and sources, and the  *)
(* branch that may be populated is fixed by the result's kind: sources for *)
(* movie, episodes for anime, seasons for series.                          *)
(***************************************************************************)
C19_OneBranchByKind ==
    (adapter_call.op = "get_details" /\ adapter_call.result.kind = "object") =>
        LET d == adapter_call.result.value IN
        /\ Cardinality(PopulatedBranches(d)) <= 1
        /\ PopulatedBranches(d) \subseteq BranchOfKind(d.type)

(***************************************************************************)
(* SERIALIZATION (src/scrapers/base_scraper.py): Season.to_dict and        *)
(* ScraperResult.to_dict on objects whose declared counts need not agree   *)
(* with their lists (the fields of a dataclass are set independently).     *)
(***************************************************************************)
\* largest declared episode_count / season_count
MaxCount == 3

\* base_scraper.py Season
Season(number, episodes, episode_count) ==
    [ number |-> number, episodes |-> episodes, episode_count |-> episode_count ]

\* the declared count wins whenever it is set
CountDeclaredFirst(list, declared) ==
    IF declared # 0 THEN declared ELSE Len(list)

\* `len(self.episodes) if self.episodes else self.episode_count`, which is
\* also `len(self.episodes) or self.episode_count`
CountOf(list, declared) ==
    IF Len(list) # 0 THEN Len(list) ELSE declared

\* Episode.to_dict, on the reduced record
EpisodeToDict(e) == [ number |-> e.number ]

\* [e.to_dict() for e in episodes]
EpisodesToDicts(episodes) ==
    [ i \in 1..Len(episodes) |-> EpisodeToDict(episodes[i]) ]

\* Season.to_dict
SeasonToDict(season) ==
    [ number |-> season.number,
      episodes |-> EpisodesToDicts(season.episodes),
      episode_count |-> CountOf(season.episodes, season.episode_count) ]

\* ScraperResult.to_dict with the three branches and both counts
DetailsToDict(d) ==
    [ type |-> d.type,
      episode_count |-> CountOf(d.episodes, d.episode_count),
      episodes |-> EpisodesToDicts(d.episodes),
      season_count |-> CountOf(d.seasons, d.season_count),
      seasons |-> [ i \in 1..Len(d.seasons) |-> SeasonToDict(d.seasons[i]) ],
      sources |-> SourcesToDicts(d.sources) ]

\* the Season objects given to to_dict
Seasons ==
    { Season(1, Numbered(n), c) : n \in 0..MaxSources, c \in 0..MaxCount }

\* the ScraperResult objects given to to_dict
DetailsObjects ==
    { ContentDetails("series", Numbered(e), ec,
                     [ k \in 1..n |-> Season(k, Numbered(m), c) ], sc, << >>) :
        e \in 0..MaxSources, ec \in 0..MaxCount, n \in 0..MaxSources,
        m \in 0..1, c \in 0..1, sc \in 0..MaxCount }

SerializeFrame ==
    UNCHANGED << orchestrator, fetch_tasks, retry, adapter_call, pool,
                 overtaken, adapters >>

\* season.to_dict()
SerializeSeason(season) ==
    /\ serialized = NothingSerialized
    /\ serialized' = [ class |-> "Season", object |-> season,
                       dict |-> SeasonToDict(season) ]
    /\ SerializeFrame

\* result.to_dict()
SerializeDetails(d) ==
    /\ serialized = NothingSerialized
    /\ serialized' = [ class |-> "ScraperResult", object |-> d,
                       dict |-> DetailsToDict(d) ]
    /\ SerializeFrame

\* the dict has gone to the caller and the object is dropped
SerializedSent ==
    /\ serialized # NothingSerialized
    /\ serialized' = NothingSerialized
    /\ SerializeFrame

SerializeNext ==
    \/ \E season \in Seasons : SerializeSeason(season)
    \/ \E d \in DetailsObjects : SerializeDetails(d)
    \/ SerializedSent

SerializeSpec == Init /\ [][SerializeNext]_vars

\* the count a dict reports agrees with the rule for the object it came from
CountFollowsRule(reported, list, declared) ==
    /\ Len(list) > 0 => reported = Len(list)
    /\ Len(list) = 0 => reported = declared

(***************************************************************************)
(* C20  Serializing a Season or a ContentDetails reports episode_count     *)
(* equal to len(episodes) whenever episodes is non-empty and equal to the  *)
(* declared episode_count otherwise, and season_count follows the same     *)
(* rule over seasons; the declared count is never used when the list is    *)
(* non-empty.                                                              *)
(***************************************************************************)
C20_CountsFollowLists ==
    /\ serialized.class \in { "Season", "ScraperResult" } =>
         CountFollowsRule(serialized.dict.episode_count,
                          serialized.object.episodes,
                          serialized.object.episode_count)
    /\ serialized.class = "ScraperResult" =>
         /\ CountFollowsRule(serialized.dict.season_count,
                             serialized.object.seasons,
                             serialized.object.season_count)
         /\ \A i \in 1..Len(serialized.object.seasons) :
              CountFollowsRule(serialized.dict.seasons[i].episode_count,
                               serialized.object.seasons[i].episodes,
                               serialized.object.seasons[i].episode_count)

\* a result with two episodes and one season that declares three of each
C20_Witness ==
    /\ serialized.class = "ScraperResult"
    /\ Len(serialized.object.episodes) = 2
    /\ serialized.object.episode_count = 3
    /\ Len(serialized.object.seasons) = 1
    /\ serialized.object.season_count = 3
    /\ serialized.dict.episode_count = 2
    /\ serialized.dict.season_count = 1

(***************************************************************************)
(* Properties of the sources an adapter returns.                           *)
(***************************************************************************)
\* the VideoSource list the last get_episode_sources returned
ReturnedSources ==
    IF adapter_call.op = "get_episode_sources" /\ adapter_call.result.kind = "list"
    THEN adapter_call.result.items ELSE << >>

(***************************************************************************)
(* C21  Every VideoSource produced by an adapter operation has is_m3u8     *)
(* true if and only if its url contains ".m3u8".                           *)
(***************************************************************************)
C21_PlaylistFlagMatchesUrl ==
    \A i \in 1..Len(ReturnedSources) :
        ReturnedSources[i].is_m3u8 <=> HasM3u8(ReturnedSources[i].url)

\* the registry entries whose pattern matches u
MatchingEntries(u) ==
    { i \in 1..Len(patterns) : PatternMatches(patterns[i], u) }

\* the classification the registry gives u: the host of the first matching
\* entry, the generic "iframe" without a match
RegistryKind(u) ==
    IF MatchingEntries(u) = { } THEN "iframe"
    ELSE patterns[CHOOSE i \in MatchingEntries(u) :
                    \A j \in MatchingEntries(u) : i <= j].host

\* the classification a call of extract_video_url reported
ReportedKind(result) ==
    IF result.kind = "object" THEN result.value.host ELSE "none"

(***************************************************************************)
(* C22  Classifying an embed URL against the ordered host registry returns *)
(* the host of the first registry entry whose pattern matches, and a URL   *)
(* that matches no entry is classified as the generic "iframe" kind; the   *)
(* embeds an adapter classifies get the same kind.                         *)
(***************************************************************************)
C22_ClassifiedByRegistry ==
    /\ adapter_call.op = "extract_video_url" =>
         ReportedKind(adapter_call.result) = RegistryKind(adapter_call.embed_url)
    /\ (adapter_call.op = "get_episode_sources"
        /\ adapter_call.name = "gogoanime") =>
         \A i \in 1..Len(ReturnedSources) :
            ReturnedSources[i].type \in
                { RegistryKind(ReturnedSources[i].url), "direct" }

(***************************************************************************)
(* C23  No VideoSource url returned by an adapter operation is             *)
(* scheme-relative: a reference given as //host/path is returned as        *)
(* https://host/path.                                                      *)
(***************************************************************************)
C23_NoSchemeRelativeUrl ==
    \A i \in 1..Len(ReturnedSources) :
        ~StartsWithSlashes(ReturnedSources[i].url)

\* the links of the servers from the i-th on that answered with a link, in
\* server order
RECURSIVE LinksFrom(_, _)
LinksFrom(servers, i) ==
    IF i > Len(servers) THEN << >>
    ELSE (IF servers[i] = NoBody THEN << >>
          ELSE NonEmptyRefs(servers[i].links))
         \o LinksFrom(servers, i + 1)

-----------------------------------------------------------------------------
\* AsyncRequestPool: fetches gated by an asyncio.Semaphore

\* largest max_concurrent a pool is constructed with
MaxPool == 2

\* largest number of fetches asked of one pool
MaxRequests == 4

\* the fetches asked of the pool, numbered in the order they are asked
Requests == 1..MaxRequests

\* what fetch_page hands back to a pooled fetch
PoolOutcomes == { "body", "None" }

\* AsyncRequestPool(max_concurrent): the semaphore starts with every slot free
NewPool(slots) ==
    [ created        |-> TRUE,
      max_concurrent |-> slots,
      value          |-> slots,
      waiters        |-> << >>,
      scheduled      |-> << >>,
      inside         |-> {},
      waited         |-> {},
      asked          |-> 0,
      finished       |-> {} ]

\* Semaphore.locked: no slot free, or somebody is queued already
locked(p) == p.value = 0 \/ Len(p.waiters) > 0

\* positions of the queued waiters whose future is not done
NotDone(p) == { i \in 1..Len(p.waiters) : ~p.waiters[i].done }

\* the lowest of a non-empty set of positions
First(S) == CHOOSE i \in S : \A j \in S : i <= j

\* Semaphore._wake_up_next: the first waiter that is not done takes a slot
wake_up_next(p) ==
    IF NotDone(p) = {}
    THEN p
    ELSE [ p EXCEPT !.value = @ - 1,
                    !.waiters[First(NotDone(p))].done = TRUE ]

\* Semaphore.acquire up to its await: take a slot, or queue behind the others
acquire(p, id) ==
    IF ~locked(p)
    THEN [ p EXCEPT !.value = @ - 1, !.inside = @ \cup { id } ]
    ELSE [ p EXCEPT !.waiters = Append(@, [ id |-> id, done |-> FALSE ]),
                    !.waited = @ \cup { id } ]

\* Semaphore.release
release(p) == wake_up_next([ p EXCEPT !.value = @ + 1 ])

\* Semaphore.acquire after its await: leave the queue, pass a spare slot on
resume(p) ==
    LET id   == Head(p.waiters).id
        left == [ p EXCEPT !.waiters = Tail(@), !.inside = @ \cup { id } ]
    IN  IF left.value > 0 THEN wake_up_next(left) ELSE left

\* a variant of leave that keeps the slot when the fetch produced None
leave_keeping_slot_on_none(p, id, outcome) ==
    LET out == [ p EXCEPT !.inside = @ \ { id },
                          !.finished = @ \cup { << id, outcome >> } ]
    IN  IF outcome = "None" THEN out ELSE release(out)

\* AsyncRequestPool.fetch leaving "async with": the slot is released
\* whatever fetch_page returned
leave(p, id, outcome) ==
    release([ p EXCEPT !.inside = @ \ { id },
                       !.finished = @ \cup { << id, outcome >> } ])

PoolFrame == UNCHANGED << orchestrator, fetch_tasks, retry, adapter_call,
                          serialized, overtaken, adapters >>

\* AsyncRequestPool.__init__
PoolCreated(slots) ==
    /\ ~pool.created
    /\ pool' = NewPool(slots)
    /\ PoolFrame

\* AsyncRequestPool.fetch awaited by its caller
PoolFetchCalled ==
    /\ pool.created
    /\ pool.asked < MaxRequests
    /\ pool' = acquire([ pool EXCEPT !.asked = @ + 1 ], pool.asked + 1)
    /\ PoolFrame

\* AsyncRequestPool.fetch_multiple: one fetch per url is handed to gather
FetchMultipleCalled(n) ==
    /\ pool.created
    /\ pool.asked + n <= MaxRequests
    /\ pool' = [ pool EXCEPT
                   !.asked = @ + n,
                   !.scheduled = @ \o [ k \in 1..n |-> pool.asked + k ] ]
    /\ PoolFrame

\* the event loop starts the next fetch that gather scheduled
GatheredFetchStarts ==
    /\ pool.created
    /\ pool.scheduled # << >>
    /\ pool' = acquire([ pool EXCEPT !.scheduled = Tail(@) ],
                       Head(pool.scheduled))
    /\ PoolFrame

\* the event loop resumes the waiter whose future was set first
WaiterResumes ==
    /\ pool.created
    /\ pool.waiters # << >>
    /\ Head(pool.waiters).done
    /\ pool' = resume(pool)
    /\ PoolFrame

\* fetch_page returns inside the gate
PoolFetchFinishes(id, outcome) ==
    /\ pool.created
    /\ id \in pool.inside
    /\ pool' = leave(pool, id, outcome)
    /\ PoolFrame

PoolNext ==
    \/ \E slots \in 0..MaxPool : PoolCreated(slots)
    \/ PoolFetchCalled
    \/ \E n \in 1..MaxRequests : FetchMultipleCalled(n)
    \/ GatheredFetchStarts
    \/ WaiterResumes
    \/ \E id \in Requests, outcome \in PoolOutcomes :
         PoolFetchFinishes(id, outcome)

PoolSpec == Init /\ [][PoolNext]_vars

\* the woken waiters: their future is set, they have not resumed yet
Woken(p) == { i \in 1..Len(p.waiters) : p.waiters[i].done }

\* C27: a pool created with max_concurrent = N has at most N fetches inside the
\* gate at once; every slot is free, held by a fetch inside the gate or handed
\* to a woken waiter, so a fetch that finishes gives its slot back whether it
\* produced a body or None; and a slot is never left free beside a waiting
\* request unless a woken waiter is about to resume and pass it on
C27_PoolGate ==
    pool.created =>
        /\ Cardinality(pool.inside) <= pool.max_concurrent
        /\ pool.value >= 0
        /\ pool.value + Cardinality(pool.inside) + Cardinality(Woken(pool))
             = pool.max_concurrent
        /\ (pool.value > 0 /\ NotDone(pool) # {}) => Woken(pool) # {}

\* a fetch finished with None, and a request that had to wait is inside the
\* gate of a full pool
C27_Witness ==
    /\ pool.created
    /\ \E r \in pool.finished : r[2] = "None"
    /\ pool.inside \cap pool.waited # {}
    /\ Cardinality(pool.inside) = pool.max_concurrent

-----------------------------------------------------------------------------
\* retry_request: the sleeps of one wrapper call

\* the k-th sleep of the run lasts delay*k
SleepsOnSchedule ==
    \A k \in 1..Len(retry.slept) : retry.slept[k] = retry.delay * k

\* each sleep of the run is longer than the one before
SleepsGrow ==
    \A k \in 1..(Len(retry.slept) - 1) : retry.slept[k] < retry.slept[k + 1]

\* C28: the wrapper sleeps delay*k after the k-th failed attempt when
\* k < max_retries, and neither after the last attempt nor after a successful
\* one, so a run of n attempts performs exactly n-1 sleeps with strictly
\* increasing durations
C28_SleepsBetweenAttempts ==
    retry.pc # "idle" =>
        /\ SleepsOnSchedule
        /\ retry.pc = "call" => Len(retry.slept) = Len(retry.outcomes)
        /\ retry.pc = "returned" =>
             Len(retry.slept) = Len(retry.outcomes) - 1
        /\ SleepsGrow

\* C28 (amended): the wrapper sleeps delay*k after the k-th failed attempt
\* when k < max_retries, and neither after the last attempt nor after a
\* successful one; a run of n >= 1 attempts performs exactly n-1 sleeps, a run
\* without attempts (max_retries = 0) performs none, and the durations are
\* strictly increasing when delay > 0 (with delay = 0 every sleep lasts 0)
C28_SleepsBetweenFailedAttempts ==
    retry.pc # "idle" =>
        LET n == Len(retry.outcomes) IN
        /\ SleepsOnSchedule
        /\ retry.pc = "call" => Len(retry.slept) = n
        /\ retry.pc = "returned" =>
             Len(retry.slept) = IF n = 0 THEN 0 ELSE n - 1
        /\ retry.delay > 0 => SleepsGrow
        /\ retry.delay = 0 => \A k \in 1..Len(retry.slept) : retry.slept[k] = 0

\* three failed attempts out of three allowed: two sleeps, of delay and of
\* twice the delay, and none after the last attempt
C28_Witness ==
    /\ retry.pc = "returned"
    /\ retry.max_retries = 3
    /\ Len(retry.outcomes) = 3
    /\ retry.result = "None"
    /\ retry.delay = 2
    /\ retry.slept = << 2, 4 >>

-----------------------------------------------------------------------------
\* /api/search: sources_used against the data returned

\* a response of the /api/search endpoint has been sent
SearchContentResponded == Responded /\ request.endpoint = "search"

\* the sources carried by the items of the response data
DataSources == { x.source : x \in Elems(DataItems) }

\* C29: in every /api/search response each source id listed in sources_used
\* has at least one item in the returned (truncated) data, and each item of
\* data carries as its source the registry id of an adapter listed in
\* sources_used
C29_SourcesUsedHaveItems ==
    SearchContentResponded =>
        /\ Elems(response.sources_used) \subseteq DataSources
        /\ DataSources \subseteq Elems(response.sources_used)
        /\ DataSources \subseteq ScraperIds

\* C29 (amended): in every /api/search response each source id listed in
\* sources_used is an adapter whose search returned at least one item before
\* truncation, whether or not one of its items is left in the truncated data,
\* and each item of data carries as its source the registry id of an adapter
\* listed in sources_used
C29_SourcesUsedYielded ==
    SearchContentResponded =>
        /\ Elems(response.sources_used) \subseteq YieldingNames
        /\ DataSources \subseteq Elems(response.sources_used)
        /\ DataSources \subseteq ScraperIds

\* two adapters are listed in sources_used and the truncated data holds
\* items of the first one only
C29_Witness ==
    /\ SearchContentResponded
    /\ Len(response.sources_used) = 2
    /\ DataSources = { response.sources_used[1] }

-----------------------------------------------------------------------------
\* /api/details: the kind the adapter works with

\* the details request has invoked get_details on an adapter that takes a kind
DetailsInvokedWithKind ==
    /\ request.endpoint = "details"
    /\ phase \in { "lookup", "responded" }
    /\ Len(invoked) = 1
    /\ invoked[1].op = "get_details"
    /\ TakesContentType(invoked[1].name)

\* C30: for a details request the caller's kind hint reaches every adapter
\* whose get_details accepts a kind (sflix, fmovies, lookmovie, vidsrc): a
\* request with kind=series on such a source invokes the adapter with kind
\* series
C30_KindHintReachesAdapter ==
    (DetailsInvokedWithKind /\ request.type = "series") =>
        DetailsKind(invoked[1].name, invoked[1].kind) = "series"

-----------------------------------------------------------------------------
\* search fan-out with the order in which the gathered tasks complete

\* the search term of the requests compared
OrderQueries == { << 3 >> }

\* kind filters of the requests compared
OrderTypes == { "anime", "all" }

\* the slots of the gather that hold a result already
Settled(slots) == { j \in 1..Len(slots) : slots[j].kind # "pending" }

\* a gather that lists the results in the order the tasks completed
GatherSlotAsCompleted(i, slots) == Cardinality(Settled(slots)) + 1

\* asyncio.gather(*tasks): the result of the i-th task is the i-th of the list
GatherSlot(i, slots) == i

\* one task of the fan-out completes, at any moment of the gather; the history
\* keeps whether a task listed before it is still running
GatheredTaskCompletes(i) ==
    /\ phase = "fanout"
    /\ i \in 1..Len(returned)
    /\ returned[i].kind = "pending"
    /\ \E outcome \in SearchOutcomes(scrapers_to_use[i], request.limit) :
         /\ search_results' =
              [ search_results EXCEPT ![GatherSlot(i, search_results)] =
                  IF request.endpoint = "search"
                  THEN search_with_scraper(outcome)
                  ELSE search_single(scrapers_to_use[i], outcome) ]
         /\ returned' = [ returned EXCEPT ![i] = outcome ]
    /\ overtaken' =
         \/ \E j \in 1..(i - 1) : returned[j].kind = "pending"
         \/ (overtaken /\ \E j \in 1..Len(returned) : returned[j].kind # "pending")
    /\ UNCHANGED << phase, request, scrapers_to_use, lookup_result, invoked,
                    response >>
    /\ UNCHANGED << fetch_tasks, retry, adapter_call, serialized, pool,
                    adapters >>

OrderNext ==
    \/ \E q \in OrderQueries, type \in OrderTypes, limit \in LimitInputs :
         SearchContentCall(q, type, limit, NoValue)
    \/ \E q \in OrderQueries, type \in MultiTypeInputs, limit \in LimitInputs :
         MultiSearchCall(q, type, limit)
    \/ \E i \in 1..Len(scrapers) : GatheredTaskCompletes(i)
    \/ SearchContentReturn
    \/ MultiSearchReturn
    \/ NextRequest

OrderSpec == Init /\ [][OrderNext]_vars

\* the ids of the first n adapters queried whose search returned an item
RECURSIVE YieldedUpTo(_)
YieldedUpTo(n) ==
    IF n = 0 THEN << >>
    ELSE IF YieldedAt(n) THEN Append(YieldedUpTo(n - 1), invoked[n].name)
    ELSE YieldedUpTo(n - 1)

\* the data the request and the adapters' answers determine
AnswerData ==
    IF request.endpoint = "search"
    THEN Truncate(Candidates, Cap)
    ELSE Truncate(SortByRelevance(Candidates, LowerStr(request.q),
                                  Len(Candidates)), Cap)

\* C24: the response of a search request is determined by its query, kind,
\* limit and source and by what each adapter answered: the ordered data and
\* sources_used are those computed from the answers taken in selection order,
\* whatever the order in which the concurrent invocations completed, so two
\* identical requests answered identically get identical responses
C24_ResponseIndependentOfCompletionOrder ==
    SearchResponded =>
        /\ response.status = 200
        /\ DataItems = AnswerData
        /\ response.sources_used = YieldedUpTo(Len(invoked))
        /\ response.success = (Len(AnswerData) > 0)

\* a response built from the answers of two adapters at least, one of which
\* completed before an adapter listed ahead of it
C24_Witness ==
    /\ SearchResponded
    /\ overtaken
    /\ Len(response.sources_used) >= 2
    /\ Cardinality({ x.source : x \in Elems(DataItems) }) >= 2

-----------------------------------------------------------------------------
\* the adapter registry under the operations that fetch

\* C25: no adapter operation and no endpoint changes an adapter's
\* configuration (base_url, site_name, language, headers, session) or the
\* adapter registry: at every moment, under every interleaving of the fetches
\* of concurrent operations, the registry holds the adapters as constructed
C25_RegistryUnchanged ==
    /\ adapters = Registry
    /\ DOMAIN adapters = ScraperIds

\* a fetch_json of an adapter's operation went through its aiohttp request
\* and its synchronous fallback with the adapter's own headers, while the
\* other task fetches as well
C25_Witness ==
    \E t \in Tasks :
        /\ FetchDone(t)
        /\ FetchFunction(fetch_tasks[t].name, fetch_tasks[t].op) = "fetch_json"
        /\ fetch_tasks[t].requests = << "aiohttp", "requests" >>
        /\ \E u \in Tasks \ { t } : fetch_tasks[u].stage # "idle"

=============================================================================
